---- MODULE Spec2Model ----
(***************************************************************************)
(* A model of the GSM Layer-1 FEC core of public-trunk/GSM/GSML1FEC.cpp:   *)
(* the TDMA scheduling of the L1 encoders, the life cycle of the L1        *)
(* decoders, the XCCH and TCH/FACCH codec pipelines and the SACCH control  *)
(* loop.  Classes the file only uses (Time, Clock, TDMAMapping, Z100Timer, *)
(* BitVector, the block and convolutional coders) are modelled from their  *)
(* description in the specification.                                       *)
(***************************************************************************)
EXTENDS Integers, Sequences, FiniteSets, TLC

VARIABLES
  clockFN,          \* gBTSL1.time().FN(), the base-station clock
  ticks,            \* clock advances so far
  encKind,          \* the encoder class under study
  mTotalBursts,     \* L1Encoder::mTotalBursts
  mPrevWriteTime,   \* L1Encoder::mPrevWriteTime, a Time [FN, TN]
  mNextWriteTime,   \* L1Encoder::mNextWriteTime, a Time [FN, TN]
  mActiveEnc,       \* L1Encoder::mActive
  mRunningEnc,      \* L1Encoder::mRunning
  ctlPC,            \* position of the thread calling the encoder's public methods
  ctlI,             \* its burst loop index
  ctlN,             \* its burst loop bound
  ctlStamp,         \* the Time it wrote into its burst (mBurst / mFillerBurst)
  opsDone,          \* public calls made so far
  svcPC,            \* position of the encoder's own thread (generator / dispatch)
  svcI,             \* its burst loop index B
  svcStamp,         \* the Time it wrote into mBurst
  txSeen,           \* bursts handed to the radio so far (saturating at 2)
  txPrev,           \* Time of the burst handed to the radio before the last one
  txLast,           \* Time of the last burst handed to the radio
  ctlOp,            \* the public call in progress on the calling thread
  mActiveDec,       \* L1Decoder::mActive
  mT3101,           \* L1Decoder::mT3101, a Z100Timer [active, left]
  mT3109,           \* L1Decoder::mT3109
  mT3111,           \* L1Decoder::mT3111
  mFER,             \* L1Decoder::mFER, the exact fraction num / FERMemory^exp
  decOps,           \* decoder calls made so far
  band,             \* gBTSL1.band()
  cfg,              \* gConfig: the GSM.* keys the SACCH loop reads
  mOrderedMSPower,  \* SACCHL1Encoder::mOrderedMSPower, in 1/Scale dBm
  mOrderedMSTiming, \* SACCHL1Encoder::mOrderedMSTiming, in 1/Scale symbols
  mActualMSPower,   \* SACCHL1Decoder::mActualMSPower, dBm
  mActualMSTiming,  \* SACCHL1Decoder::mActualMSTiming, symbols
  mRSSI,            \* XCCHL1Decoder::mRSSI[4], dB
  mTimingError,     \* XCCHL1Decoder::mTimingError[4], symbols
  mRSSICounter,     \* XCCHL1Decoder::mRSSICounter
  mPhyNew,          \* XCCHL1Decoder::mPhyNew
  rxB,              \* index B of the next uplink burst in its frame
  rxBursts,         \* uplink bursts received so far
  phyHeader,        \* the SACCH physical header last written into mU
  script,           \* the L2 frames the upper layer will hand down, by Payload id
  sentFrames,       \* how many of them it has handed down
  mUenc,            \* XCCHL1Encoder::mU, with mD and mP its segments
  mCenc,            \* XCCHL1Encoder::mC
  mIenc,            \* XCCHL1Encoder::mI
  air,              \* bursts the radio holds between encoder and decoder
  mIdec,            \* XCCHL1Decoder::mI
  mCdec,            \* XCCHL1Decoder::mC
  mUdec,            \* XCCHL1Decoder::mU, with mD, mP and mDP its segments
  mReadTime,        \* XCCHL1Decoder::mReadTime
  upFrames,         \* frames handed to mUpstream
  mItag,            \* for each cell of the decoder's mI, the frame that wrote it
  mCtag,            \* for each cell of the decoder's mC, the frame it was read from
  rxGot,            \* for each frame, the bursts B the decoder took into mI
  rxResult,         \* for each frame, how its decode was counted
  deintFrame,       \* the frame whose burst B = 3 set off the last deinterleave
  mOffset,          \* TCHFACCHL1Encoder::mOffset
  mPreviousFACCH,   \* TCHFACCHL1Encoder::mPreviousFACCH
  blocks,           \* for each block dispatched, the speech frame in it (0: none)
  ilvPC,            \* position of a walk through the interleave loops
  ilvK,             \* its loop index k
  ilvBlock,         \* the block it is interleaving
  ilvWrites,        \* how often each cell of the encoder's mI has been written
  pwrCode,          \* the power control code handed to decodePower (-1: none)
  pwrDBm,           \* the power in dBm handed to encodePower
  pwrOut,           \* what encodePower returned (-1: not called)
  mSpeechQ,         \* TCHFACCHL1Encoder::mSpeechQ, the speech frames by place in script
  mL2Q,             \* TCHFACCHL1Encoder::mL2Q, the FACCH frames by Payload id
  currentFACCH,     \* dispatch's local currentFACCH
  dispatched,       \* for each block dispatched, the queues dispatch found and its choice
  primitive,        \* frame.primitive() of the writeHighSide call in progress or made last
  hsPC,             \* position of that call: "busy" until it returns
  process,          \* the process: "running", "aborted" by assert or "crashed"
  oobIndexed,       \* whether an interleave row outside the buffer was indexed
  strays,           \* bursts of foreign frame numbers an active decoder took so far
  rachIn,           \* RACHL1Decoder::mQ, the access bursts the radio queued
  rachUp,           \* the calls the RACH decoder made on mUpstream
  mUrach,           \* RACHL1Decoder::mU, with mD its first eight bits
  BSIC,             \* gBTSL1.BSIC()
  lowPC,            \* position of the receive thread inside writeLowSide
  lowBurst,         \* the burst that call was handed
  mDownstream,      \* L1Encoder::mDownstream is bound to a radio
  onC0,             \* that radio carries C0, the beacon ARFCN
  mUpstream,        \* L1Decoder::mUpstream is bound to the layer above
  insSeen,          \* what an inspector called from another thread was last given
  insCalls          \* calls of inspectors made so far

encVars == <<encKind, mTotalBursts, mPrevWriteTime, mNextWriteTime, mActiveEnc,
             mRunningEnc, ctlPC, ctlI, ctlN, ctlStamp, ctlOp, opsDone, svcPC, svcI,
             svcStamp, txSeen, txPrev, txLast>>
clockVars == <<clockFN, ticks>>
decBaseVars == <<mActiveDec, mT3101, mT3109, mT3111>>
decCountVars == <<mFER, decOps>>
\* What the actions of one component leave alone in the other components.
sacchEncVars == <<mOrderedMSPower, mOrderedMSTiming, phyHeader>>
sacchDecVars == <<mActualMSPower, mActualMSTiming>>
phyVars == <<mRSSI, mTimingError, mRSSICounter, mPhyNew>>
sacchVars == <<band, cfg, sacchEncVars, sacchDecVars, phyVars, rxB, rxBursts>>
codecEncVars == <<script, sentFrames, mUenc, mCenc, mIenc>>
codecDecVars == <<mIdec, mCdec, mUdec, mReadTime, upFrames>>
codecTagVars == <<mItag, mCtag, rxGot, rxResult, deintFrame>>
tchVars == <<mOffset, mPreviousFACCH, blocks>>
ilvVars == <<ilvPC, ilvK, ilvBlock, ilvWrites>>
pwrVars == <<pwrCode, pwrDBm, pwrOut>>
queueVars == <<mSpeechQ, mL2Q, currentFACCH, dispatched>>
hsVars == <<primitive, hsPC>>
faultVars == <<process, oobIndexed, strays>>
rachVars == <<rachIn, rachUp, mUrach, BSIC>>
lowVars == <<lowPC, lowBurst>>
radioVars == <<mDownstream, onC0, mUpstream>>
inspVars == <<insSeen, insCalls>>
moreVars == <<faultVars, rachVars, lowVars, radioVars, inspVars>>
codecVars == <<codecEncVars, air, codecDecVars, codecTagVars, tchVars, ilvVars,
              pwrVars, queueVars, hsVars, moreVars>>
\* What the actions of one component leave alone in the other components.
encRest == <<decCountVars, sacchVars, codecVars>>
decRest == <<encVars, clockFN, sacchVars, codecVars>>
vars == <<clockVars, encVars, decBaseVars, decCountVars, sacchVars, codecVars>>

----------------------------------------------------------------------------
(* Bounds of the model.                                                    *)

MaxTicks == 4
MaxOps == 3

----------------------------------------------------------------------------
(* Time and Clock (GSMCommon.h), from section 3 and 4.1 of the             *)
(* specification.                                                          *)

Hyperframe == 2715648

MkTime(fn, tn) == [FN |-> fn, TN |-> tn]

\* Signed distance v1 - v2 in frames, taken in the closer direction of the ring.
FNDelta(v1, v2) ==
  LET delta == v1 - v2
      half == Hyperframe \div 2
  IN IF delta >= half THEN delta - Hyperframe
     ELSE IF delta < -half THEN delta + Hyperframe
     ELSE delta

\* Time::operator<
TimeLess(a, b) ==
  IF a.FN = b.FN THEN a.TN < b.TN ELSE FNDelta(a.FN, b.FN) < 0

\* Time::rollForward(wFN, modulus): step the frame number until it is wFN
\* modulo modulus (no step when it already is).
TimeRollForward(t, wFN, modulus) ==
  LET d == CHOOSE x \in 0..(modulus - 1) :
             /\ ((t.FN + x) % Hyperframe) % modulus = wFN
             /\ \A y \in 0..(x - 1) : ((t.FN + y) % Hyperframe) % modulus # wFN
  IN MkTime((t.FN + d) % Hyperframe, t.TN)

\* Time::operator+=
TimePlus(t, step) == MkTime((t.FN + step) % Hyperframe, t.TN)

\* Clock::wait(when) returns once the clock has reached when.
ClockReached(when) == FNDelta(when.FN, clockFN) < 1

----------------------------------------------------------------------------
(* TDMAMapping (GSMTDMA.h): the frames of a channel within its repeat      *)
(* length, forward B -> FN and reverse FN -> B.                            *)

EncoderKinds == {"XCCH", "SACCH", "TCHFACCH", "FCCH", "SCH"}

Mapping(kind) ==
  CASE kind = "XCCH" -> [frames |-> <<2, 3, 4, 5>>, repeatLength |-> 51]
    [] kind = "SACCH" -> [frames |-> <<42, 43, 44, 45>>, repeatLength |-> 102]
    [] kind = "TCHFACCH" ->
         [frames |-> <<0, 1, 2, 3, 4, 5, 6, 7, 8, 9, 10, 11,
                       13, 14, 15, 16, 17, 18, 19, 20, 21, 22, 23, 24>>,
          repeatLength |-> 26]
    [] kind = "FCCH" -> [frames |-> <<0, 10, 20, 30, 40>>, repeatLength |-> 51]
    [] kind = "SCH" -> [frames |-> <<1, 11, 21, 31, 41>>, repeatLength |-> 51]

numFrames(kind) == Len(Mapping(kind).frames)
repeatLength(kind) == Mapping(kind).repeatLength

\* TDMAMapping::frameMapping(count)
frameMapping(kind, count) == Mapping(kind).frames[(count % numFrames(kind)) + 1]

\* TDMAMapping::reverseMapping(FN): the index B of the frame, -1 when the
\* frame does not belong to the channel.
reverseMapping(kind, fn) ==
  LET r == fn % repeatLength(kind)
      hits == {b \in 0..(numFrames(kind) - 1) : Mapping(kind).frames[b + 1] = r}
  IN IF hits = {} THEN -1 ELSE CHOOSE b \in hits : TRUE

\* The timeslot the channel is configured on.
ChannelTN(kind) == IF kind \in {"FCCH", "SCH"} THEN 0 ELSE 1

\* Encoders that run a thread of their own.
HasThread(kind) == kind \in {"TCHFACCH", "FCCH"}

----------------------------------------------------------------------------
(* Z100Timer (Timeval.h) and the L1Decoder base class.                     *)

T3101Limit == 2
T3109Limit == 3
T3111Limit == 2

TimerIdle == [active |-> FALSE, left |-> 0]
\* Z100Timer::set
TimerSet(limit) == [active |-> TRUE, left |-> limit]
\* Z100Timer::reset
TimerReset == [active |-> FALSE, left |-> 0]
\* Z100Timer::expired: a timer that is not active does not expire.
TimerExpired(t) == t.active /\ t.left = 0
\* Wall time passing by one timer unit.
TimerAge(t) == IF t.active /\ t.left > 0 THEN [t EXCEPT !.left = t.left - 1] ELSE t

\* recyclable() as it would be if the release timer T3111 were left out.
recyclableWithoutT3111 == TimerExpired(mT3101) \/ TimerExpired(mT3109)

\* L1Decoder::recyclable
recyclable == TimerExpired(mT3101) \/ TimerExpired(mT3109) \/ TimerExpired(mT3111)

\* active() as it would be if it looked at mActive alone.
activeDecOpenOnly == mActiveDec

\* L1Decoder::active
activeDec == mActiveDec /\ ~recyclable


\* L1Decoder::mFERMemory
FERMemory == 208
FERZero == [num |-> 0, exp |-> 0]
RECURSIVE Pow(_, _)
Pow(b, e) == IF e = 0 THEN 1 ELSE b * Pow(b, e - 1)
\* mFER is a float: the fraction is exact up to three digits in base
\* FERMemory, which fill the 24 bits of a float's mantissa, and is rounded
\* down from there on.
FERRound(num, exp) ==
  IF exp <= 3 THEN [num |-> num, exp |-> exp]
  ELSE [num |-> num \div FERMemory, exp |-> exp - 1]
\* L1Decoder::countGoodFrame: mFER *= (1 - 1/FERMemory)
countGoodFrame(fer) == FERRound(fer.num * (FERMemory - 1), fer.exp + 1)
\* L1Decoder::countBadFrame: mFER = (1 - 1/FERMemory)*mFER + 1/FERMemory
countBadFrame(fer) ==
  FERRound(fer.num * (FERMemory - 1) + Pow(FERMemory, fer.exp), fer.exp + 1)
----------------------------------------------------------------------------
(* L1Encoder base class.                                                   *)

\* L1Encoder::active: the sibling decoder, when there is one, must not be recyclable.
hasSibling(kind) == kind \in {"XCCH", "SACCH", "TCHFACCH"}
activeEnc == IF hasSibling(encKind) THEN mActiveEnc /\ ~recyclable ELSE mActiveEnc

\* resync as it would be if it only caught up an encoder that is behind.
resyncBehindOnly(next, total) ==
  LET delta == FNDelta(next.FN, clockFN)
  IN IF delta < 0
       THEN TimeRollForward(MkTime(clockFN, ChannelTN(encKind)),
                            frameMapping(encKind, total), repeatLength(encKind))
       ELSE next

\* L1Encoder::resync: the value it leaves in mNextWriteTime.
resync(next, total) ==
  LET delta == FNDelta(next.FN, clockFN)
  IN IF (delta < 0) \/ (delta > 51 * 26)
       THEN TimeRollForward(MkTime(clockFN, ChannelTN(encKind)),
                            frameMapping(encKind, total), repeatLength(encKind))
       ELSE next

\* L1Encoder::rollForward: the values it leaves in mPrevWriteTime,
\* mTotalBursts and mNextWriteTime.
rollForward(next, total) ==
  [prev |-> next,
   total |-> total + 1,
   next |-> TimeRollForward(next, frameMapping(encKind, total + 1),
                            repeatLength(encKind))]

\* L1Encoder::L1Encoder: both write times start at the clock, rolled to frame 0
\* of the mapping.
ConstructedTime(kind, now) ==
  TimeRollForward(MkTime(now, ChannelTN(kind)), frameMapping(kind, 0),
                  repeatLength(kind))

\* mDownstream->writeHighSide(burst): the radio receives a burst stamped t.
Radio(t) ==
  /\ txPrev' = txLast
  /\ txLast' = t
  /\ txSeen' = IF txSeen < 2 THEN txSeen + 1 ELSE 2

\* The calling thread holds mLock for the whole of close().
lockHeld == ctlOp = "close"

\* L1Encoder::open (XCCH, SACCH, TCH/FACCH, FCCH and SCH all use it).
L1EncoderOpen ==
  /\ ctlPC = "idle" /\ opsDone < MaxOps
  /\ opsDone' = opsDone + 1
  /\ mRunningEnc' = TRUE
  /\ svcPC' = IF ~mRunningEnc /\ HasThread(encKind) THEN "top" ELSE svcPC
  /\ mTotalBursts' = 0
  /\ mActiveEnc' = TRUE
  /\ mNextWriteTime' = resync(mNextWriteTime, 0)
  /\ UNCHANGED <<encKind, mPrevWriteTime, ctlPC, ctlI, ctlN, ctlStamp, ctlOp,
                 svcI, svcStamp, txSeen, txPrev, txLast>>

EncOpen == L1EncoderOpen /\ UNCHANGED <<clockVars, decBaseVars, encRest>>

\* L1Encoder::close up to the first burst of sendIdleFill.
L1EncoderClose ==
  /\ ctlPC = "idle" /\ opsDone < MaxOps
  /\ opsDone' = opsDone + 1
  /\ mActiveEnc' = FALSE
  /\ mNextWriteTime' = resync(mNextWriteTime, mTotalBursts)
  /\ ctlOp' = "close"
  /\ ctlPC' = "write"
  /\ ctlI' = 0
  /\ ctlN' = numFrames(encKind)
  /\ UNCHANGED <<encKind, mTotalBursts, mPrevWriteTime, mRunningEnc, ctlStamp,
                 svcPC, svcI, svcStamp, txSeen, txPrev, txLast>>

EncClose == L1EncoderClose /\ UNCHANGED <<clockVars, decBaseVars, encRest>>

\* L1Encoder::resync called on its own.
EncResync ==
  /\ ctlPC = "idle" /\ opsDone < MaxOps
  /\ opsDone' = opsDone + 1
  /\ mNextWriteTime' = resync(mNextWriteTime, mTotalBursts)
  /\ UNCHANGED <<encKind, mTotalBursts, mPrevWriteTime, mActiveEnc, mRunningEnc,
                 ctlPC, ctlI, ctlN, ctlStamp, ctlOp, svcPC, svcI, svcStamp,
                 txSeen, txPrev, txLast>>
  /\ UNCHANGED <<clockVars, decBaseVars, encRest>>

\* XCCHL1Encoder::writeHighSide(DATA) and SCHL1Encoder::writeHighSide up to
\* waitToSend: resync, then four bursts (XCCH, SACCH) or one (SCH).
L1EncoderWriteData ==
  /\ ctlPC = "idle" /\ opsDone < MaxOps
  /\ encKind \in {"XCCH", "SACCH", "SCH"}
  /\ opsDone' = opsDone + 1
  /\ mNextWriteTime' = resync(mNextWriteTime, mTotalBursts)
  /\ ctlOp' = "data"
  /\ ctlPC' = "wait"
  /\ ctlI' = 0
  /\ ctlN' = IF encKind = "SCH" THEN 1 ELSE 4
  /\ UNCHANGED <<encKind, mTotalBursts, mPrevWriteTime, mActiveEnc, mRunningEnc,
                 ctlStamp, svcPC, svcI, svcStamp, txSeen, txPrev, txLast>>

EncWriteHighSideData ==
  L1EncoderWriteData /\ UNCHANGED <<clockVars, decBaseVars, encRest>>

\* L1Encoder::waitToSend on the calling thread.
CtlWaitToSend ==
  /\ ctlPC = "wait"
  /\ ClockReached(mPrevWriteTime)
  /\ ctlPC' = "write"
  /\ UNCHANGED <<encKind, mTotalBursts, mPrevWriteTime, mNextWriteTime, mActiveEnc,
                 mRunningEnc, ctlI, ctlN, ctlStamp, ctlOp, opsDone, svcPC, svcI,
                 svcStamp, txSeen, txPrev, txLast>>
  /\ UNCHANGED <<clockVars, decBaseVars, encRest>>

\* One turn of the burst loop of XCCHL1Encoder::transmit, of
\* SCHL1Encoder::writeHighSide or of sendIdleFill: burst.time(mNextWriteTime);
\* mDownstream->writeHighSide(burst); rollForward().
L1EncoderWriteBurst ==
  /\ ctlPC = "write"
  /\ ctlStamp' = mNextWriteTime
  /\ Radio(mNextWriteTime)
  /\ LET r == rollForward(mNextWriteTime, mTotalBursts) IN
       /\ mPrevWriteTime' = r.prev
       /\ mTotalBursts' = r.total
       /\ mNextWriteTime' = r.next
  /\ ctlI' = ctlI + 1
  /\ ctlPC' = IF ctlI + 1 < ctlN THEN "write" ELSE "idle"
  /\ ctlOp' = IF ctlI + 1 < ctlN THEN ctlOp ELSE "none"
  /\ UNCHANGED <<encKind, mActiveEnc, mRunningEnc, ctlN, opsDone,
                 svcPC, svcI, svcStamp>>

CtlWriteBurst == L1EncoderWriteBurst /\ UNCHANGED <<clockVars, decBaseVars, encRest>>

----------------------------------------------------------------------------
(* The encoders' own threads: GeneratorL1Encoder::serviceLoop (FCCH) and   *)
(* TCHFACCHL1EncoderRoutine with TCHFACCHL1Encoder::dispatch.              *)

\* GeneratorL1Encoder::serviceLoop: while (mRunning) if (mActive) resync().
GenLoop ==
  /\ encKind = "FCCH" /\ svcPC = "top"
  /\ mRunningEnc /\ mActiveEnc
  /\ mNextWriteTime' = resync(mNextWriteTime, mTotalBursts)
  /\ svcPC' = "wait"
  /\ UNCHANGED <<encKind, mTotalBursts, mPrevWriteTime, mActiveEnc, mRunningEnc,
                 ctlPC, ctlI, ctlN, ctlStamp, ctlOp, opsDone, svcI, svcStamp,
                 txSeen, txPrev, txLast>>
  /\ UNCHANGED <<clockVars, decBaseVars, encRest>>

\* waitToSend() of the service loop, then FCCHL1Encoder::generate up to
\* mBurst.time(mNextWriteTime).
GenGenerate ==
  /\ encKind = "FCCH" /\ svcPC = "wait"
  /\ ClockReached(mPrevWriteTime)
  /\ LET next == resync(mNextWriteTime, mTotalBursts) IN
       /\ mNextWriteTime' = next
       /\ svcStamp' = next
  /\ svcI' = 3
  /\ svcPC' = "write"
  /\ UNCHANGED <<encKind, mTotalBursts, mPrevWriteTime, mActiveEnc, mRunningEnc,
                 ctlPC, ctlI, ctlN, ctlStamp, ctlOp, opsDone, txSeen, txPrev, txLast>>
  /\ UNCHANGED <<clockVars, decBaseVars, encRest>>

\* TCHFACCHL1EncoderRoutine: while (encoder->active()) dispatch().
\* active() takes mLock.
TCHRoutine ==
  /\ encKind = "TCHFACCH" /\ svcPC = "top"
  /\ ~lockHeld
  /\ svcPC' = IF activeEnc THEN "dispatch" ELSE "exited"
  /\ UNCHANGED <<encKind, mTotalBursts, mPrevWriteTime, mNextWriteTime, mActiveEnc,
                 mRunningEnc, ctlPC, ctlI, ctlN, ctlStamp, ctlOp, opsDone, svcI,
                 svcStamp, txSeen, txPrev, txLast>>
  /\ UNCHANGED <<clockVars, decBaseVars, encRest>>

\* TCHFACCHL1Encoder::dispatch up to its first wait: resync, and on an
\* inactive channel add 26 frames to mNextWriteTime.
TCHDispatch ==
  /\ encKind = "TCHFACCH" /\ svcPC = "dispatch"
  /\ ~lockHeld
  /\ LET next == resync(mNextWriteTime, mTotalBursts) IN
       IF ~activeEnc
         THEN /\ mNextWriteTime' = TimePlus(next, 26)
              /\ svcPC' = "inactive"
         ELSE /\ mNextWriteTime' = resync(next, mTotalBursts)
              /\ svcPC' = "wait"
  /\ UNCHANGED <<encKind, mTotalBursts, mPrevWriteTime, mActiveEnc, mRunningEnc,
                 ctlPC, ctlI, ctlN, ctlStamp, ctlOp, opsDone, svcI, svcStamp,
                 txSeen, txPrev, txLast>>
  /\ UNCHANGED <<clockVars, decBaseVars, encRest>>

\* gBTSL1.clock().wait(mNextWriteTime) of the inactive branch, then return.
TCHInactiveWait ==
  /\ encKind = "TCHFACCH" /\ svcPC = "inactive"
  /\ ClockReached(mNextWriteTime)
  /\ svcPC' = "top"
  /\ UNCHANGED <<encKind, mTotalBursts, mPrevWriteTime, mNextWriteTime, mActiveEnc,
                 mRunningEnc, ctlPC, ctlI, ctlN, ctlStamp, ctlOp, opsDone, svcI,
                 svcStamp, txSeen, txPrev, txLast>>
  /\ UNCHANGED <<clockVars, decBaseVars, encRest>>

\* waitToSend() of dispatch; the block's frame is then chosen and interleaved.
dispatchWaitToSend ==
  /\ encKind = "TCHFACCH" /\ svcPC = "wait"
  /\ ClockReached(mPrevWriteTime)
  /\ svcI' = 0
  /\ svcPC' = "stamp"
  /\ UNCHANGED <<encKind, mTotalBursts, mPrevWriteTime, mNextWriteTime, mActiveEnc,
                 mRunningEnc, ctlPC, ctlI, ctlN, ctlStamp, ctlOp, opsDone,
                 svcStamp, txSeen, txPrev, txLast>>

TCHWaitToSend == dispatchWaitToSend /\ UNCHANGED <<clockVars, decBaseVars, encRest>>

\* mBurst.time(mNextWriteTime) of dispatch's burst loop.
TCHStampBurst ==
  /\ encKind = "TCHFACCH" /\ svcPC = "stamp"
  /\ svcStamp' = mNextWriteTime
  /\ svcPC' = "write"
  /\ UNCHANGED <<encKind, mTotalBursts, mPrevWriteTime, mNextWriteTime, mActiveEnc,
                 mRunningEnc, ctlPC, ctlI, ctlN, ctlStamp, ctlOp, opsDone, svcI,
                 txSeen, txPrev, txLast>>
  /\ UNCHANGED <<clockVars, decBaseVars, encRest>>

\* mDownstream->writeHighSide(mBurst); rollForward(); on the encoder's own
\* thread: the end of generate (FCCH) or of one turn of dispatch's loop over
\* B = 0..3.
L1EncoderSvcWriteBurst ==
  /\ svcPC = "write"
  /\ Radio(svcStamp)
  /\ LET r == rollForward(mNextWriteTime, mTotalBursts) IN
       /\ mPrevWriteTime' = r.prev
       /\ mTotalBursts' = r.total
       /\ mNextWriteTime' = r.next
  /\ svcI' = IF svcI < 3 THEN svcI + 1 ELSE 0
  /\ svcPC' = IF svcI < 3 THEN "stamp" ELSE "top"
  /\ UNCHANGED <<encKind, mActiveEnc, mRunningEnc, ctlPC, ctlI, ctlN, ctlStamp,
                 ctlOp, opsDone, svcStamp>>

SvcWriteBurst == L1EncoderSvcWriteBurst /\ UNCHANGED <<clockVars, decBaseVars, encRest>>

----------------------------------------------------------------------------
(* The base-station clock.                                                 *)

TickSteps == {1, 26}
ClockStarts(kind) == IF kind = "SACCH" THEN {40} ELSE {0, Hyperframe - 3}

\* The clock moves on by one frame; while the dispatch thread sleeps through
\* its multiframe the frames of that multiframe pass in one step.
ClockTick ==
  /\ ticks < MaxTicks
  /\ \E d \in TickSteps :
       /\ d > 1 => svcPC = "inactive"
       /\ clockFN' = (clockFN + d) % Hyperframe
  /\ ticks' = ticks + 1
  /\ UNCHANGED <<encVars, decBaseVars, encRest>>


\* The clock runs on to the frame a thread sleeps for in waitToSend.
ClockWake ==
  /\ ctlPC = "wait" \/ svcPC = "wait"
  /\ ~ClockReached(mPrevWriteTime)
  /\ ticks < MaxTicks
  /\ clockFN' = mPrevWriteTime.FN
  /\ ticks' = ticks + 1
  /\ UNCHANGED <<encVars, decBaseVars, encRest>>

----------------------------------------------------------------------------
(* The life cycle of a bidirectional L1Decoder: open, close, the frames    *)
(* its subclass counts, and the three timers running down.                 *)

MaxDecOps == 4
MaxDecTicks == 5

\* L1Decoder::open
L1DecoderOpen ==
  /\ decOps < MaxDecOps
  /\ decOps' = decOps + 1
  /\ mFER' = FERZero
  /\ mT3111' = TimerReset
  /\ mT3109' = TimerReset
  /\ mT3101' = TimerSet(T3101Limit)
  /\ mActiveDec' = TRUE

DecOpen == L1DecoderOpen /\ UNCHANGED <<ticks, decRest>>

\* close() as it would be if it armed no release timer.
L1DecoderCloseWithoutT3111 ==
  /\ decOps < MaxDecOps
  /\ decOps' = decOps + 1
  /\ mT3101' = TimerReset
  /\ mT3109' = TimerReset
  /\ mT3111' = mT3111
  /\ mActiveDec' = FALSE
  /\ mFER' = mFER

\* L1Decoder::close
L1DecoderClose ==
  /\ decOps < MaxDecOps
  /\ decOps' = decOps + 1
  /\ mT3101' = TimerReset
  /\ mT3109' = TimerReset
  /\ mT3111' = TimerSet(T3111Limit)
  /\ mActiveDec' = FALSE
  /\ mFER' = mFER

DecClose == L1DecoderClose /\ UNCHANGED <<ticks, decRest>>

\* XCCHL1Decoder::handleGoodFrame, the timers: T3109 is re-armed and a
\* running T3101 is stopped.
handleGoodFrameT3109 == TimerSet(T3109Limit)
handleGoodFrameT3101 == IF mT3101.active THEN TimerReset ELSE mT3101

\* XCCHL1Decoder::writeLowSide for the burst that completes a frame which
\* decodes: countGoodFrame, handleGoodFrame.
DecGoodFrame ==
  /\ decOps < MaxDecOps
  /\ activeDec
  /\ decOps' = decOps + 1
  /\ mFER' = countGoodFrame(mFER)
  /\ mT3109' = handleGoodFrameT3109
  /\ mT3101' = handleGoodFrameT3101
  /\ UNCHANGED <<mActiveDec, mT3111, ticks, decRest>>

\* XCCHL1Decoder::writeLowSide for the burst that completes a frame which
\* fails its parity check: countBadFrame.
DecBadFrame ==
  /\ decOps < MaxDecOps
  /\ activeDec
  /\ decOps' = decOps + 1
  /\ mFER' = countBadFrame(mFER)
  /\ UNCHANGED <<decBaseVars, ticks, decRest>>

\* Wall time passes: every running timer comes one unit closer to its end.
DecTick ==
  /\ ticks < MaxDecTicks
  /\ ticks' = ticks + 1
  /\ mT3101' = TimerAge(mT3101)
  /\ mT3109' = TimerAge(mT3109)
  /\ mT3111' = TimerAge(mT3111)
  /\ UNCHANGED <<mActiveDec, decCountVars, decRest>>

\* Wall time passes, uncounted: the timers read the system clock, which no
\* call of the decoder holds back.
DecTimePasses ==
  /\ mT3101' = TimerAge(mT3101)
  /\ mT3109' = TimerAge(mT3109)
  /\ mT3111' = TimerAge(mT3111)
  /\ UNCHANGED <<mActiveDec, decCountVars, ticks, decRest>>
----------------------------------------------------------------------------
(* Power control codes and the SACCH closed loop.  The loop's floats are    *)
(* kept in fixed point, Scale units to the dBm or symbol, rounded down.     *)

Bands == {"EGSM900", "DCS1800", "PCS1900"}

powerCommandLowBand ==
  <<39, 39, 39, 37, 35, 33, 31, 29, 27, 25, 23, 21, 19, 17, 15, 13,
    11, 9, 7, 5, 5, 5, 5, 5, 5, 5, 5, 5, 5, 5, 5, 5>>
powerCommand1800 ==
  <<30, 28, 26, 24, 22, 20, 18, 16, 14, 12, 10, 8, 6, 4, 2, 0,
    0, 0, 0, 0, 0, 0, 0, 0, 0, 0, 0, 0, 0, 36, 24, 23>>
powerCommand1900 ==
  <<30, 28, 26, 24, 22, 20, 18, 16, 14, 12, 10, 8, 6, 4, 2, 0,
    0, 0, 0, 0, 0, 0, 0, 0, 0, 0, 0, 0, 0, 0, 0, 0>>

\* pickTable; table[code] is pickTable(b)[code + 1].
pickTable(b) ==
  CASE b = "EGSM900" -> powerCommandLowBand
    [] b = "DCS1800" -> powerCommand1800
    [] b = "PCS1900" -> powerCommand1900

Abs(x) == IF x < 0 THEN -x ELSE x

\* decodePower reading the entry after the code's.
decodePowerNext(b, code) == pickTable(b)[((code + 1) % 32) + 1]

decodePower(b, code) == pickTable(b)[code + 1]

\* encodePower: the loop over i = 1..31 with (minErr, code) carried along;
\* an exact match returns at once.
RECURSIVE encodePowerFrom(_, _, _, _, _)
encodePowerFrom(b, power, i, minErr, code) ==
  IF i = 32 THEN code
  ELSE LET thisErr == Abs(power - pickTable(b)[i + 1])
       IN IF thisErr = 0 THEN i
          ELSE IF thisErr < minErr
                 THEN encodePowerFrom(b, power, i + 1, thisErr, i)
                 ELSE encodePowerFrom(b, power, i + 1, minErr, code)

encodePower(b, power) ==
  encodePowerFrom(b, power, 1, Abs(power - pickTable(b)[1]), 0)

Scale == 4

\* (int)x of a float held in fixed point: truncation toward zero.
ToInt(x) == IF x >= 0 THEN x \div Scale ELSE -((-x) \div Scale)

\* XCCHL1Decoder::RSSI and ::timingError: a quarter of the sum of the four
\* latest values.
Mean4(a) == ((a[1] + a[2] + a[3] + a[4]) * Scale) \div 4

Clamp(x, lo, hi) == IF x > hi THEN hi ELSE IF x < lo THEN lo ELSE x

\* SACCHL1Encoder::sendFrame, the closed loop on power.
loopPower(ordered, actual, rssi) ==
  LET deltaP == rssi - cfg.RSSITarget * Scale
      targetMSPower == actual * Scale - deltaP
      damped == (cfg.powerDamping * ordered
                 + (100 - cfg.powerDamping) * targetMSPower) \div 100
  IN \* if (>max) max; else if (<min) min
     IF damped > cfg.maxPower * Scale THEN cfg.maxPower * Scale
     ELSE IF damped < cfg.minPower * Scale THEN cfg.minPower * Scale ELSE damped

\* SACCHL1Encoder::sendFrame, the closed loop on timing advance.
loopTiming(ordered, actual, timingError) ==
  LET targetMSTiming == actual * Scale + timingError
      damped == (cfg.TADamping * ordered
                 + (100 - cfg.TADamping) * targetMSTiming) \div 100
  IN \* if (<0) 0; else if (>max) max
     IF damped < 0 THEN 0
     ELSE IF damped > cfg.maxTiming * Scale THEN cfg.maxTiming * Scale ELSE damped

\* The two fields sendFrame writes at the head of mU.
physicalHeader(power, timing) ==
  [power |-> encodePower(band, ToInt(power)),
   timing |-> ToInt(timing + Scale \div 2)]

InitialMSPower == 33

\* SACCHL1Encoder::open
SacchEncOpen ==
  /\ encKind = "SACCH"
  /\ L1EncoderOpen
  /\ mOrderedMSPower' = InitialMSPower * Scale
  /\ mOrderedMSTiming' = 0
  /\ UNCHANGED <<phyHeader, band, cfg, sacchDecVars, phyVars, rxB, rxBursts>>
  /\ UNCHANGED <<clockVars, decBaseVars, decCountVars, codecVars>>

\* SACCHL1Decoder::open
SacchDecOpen ==
  /\ ctlPC = "idle" /\ opsDone < MaxOps
  /\ opsDone' = opsDone + 1
  /\ L1DecoderOpen
  /\ mActualMSPower' = InitialMSPower
  /\ mActualMSTiming' = 0
  /\ UNCHANGED <<band, cfg, sacchEncVars, phyVars, rxB, rxBursts>>
  /\ UNCHANGED <<encKind, mTotalBursts, mPrevWriteTime, mNextWriteTime, mActiveEnc,
                 mRunningEnc, ctlPC, ctlI, ctlN, ctlStamp, ctlOp, svcPC, svcI,
                 svcStamp, txSeen, txPrev, txLast>>
  /\ UNCHANGED <<clockVars, codecVars>>

MaxRxBursts == 4
\* What the radio measures on a burst: <<RSSI, timing error>>.
Measurements == {<<-50, -1>>, <<-30, 2>>}
\* What a good uplink frame carries in its header: <<power code, TA field>>.
UplinkHeaders == {<<5, 3>>, <<12, 70>>}

\* SACCHL1FEC::setPhy(RSSI, timingError): the decoder takes the values into
\* all four slots, then the encoder sets its orders from the decoder's
\* averages without damping; reading the averages clears mPhyNew.
SacchSetPhy ==
  /\ encKind = "SACCH"
  /\ ctlPC = "idle" /\ opsDone < MaxOps
  /\ opsDone' = opsDone + 1
  /\ \E m \in Measurements :
       /\ mRSSI' = <<m[1], m[1], m[1], m[1]>>
       /\ mTimingError' = <<m[2], m[2], m[2], m[2]>>
       /\ mPhyNew' = FALSE
       /\ LET deltaP == Mean4(mRSSI') - cfg.RSSITarget * Scale
          IN mOrderedMSPower' = Clamp(mActualMSPower * Scale - deltaP,
                                      cfg.minPower * Scale, cfg.maxPower * Scale)
       /\ LET t == mActualMSTiming * Scale + Mean4(mTimingError')
          IN mOrderedMSTiming' =
               IF t < 0 THEN 0
               ELSE IF t > cfg.maxTiming * Scale THEN cfg.maxTiming * Scale ELSE t
  /\ UNCHANGED <<phyHeader, band, cfg, sacchDecVars, mRSSICounter, rxB, rxBursts>>
  /\ UNCHANGED <<encKind, mTotalBursts, mPrevWriteTime, mNextWriteTime, mActiveEnc,
                 mRunningEnc, ctlPC, ctlI, ctlN, ctlStamp, ctlOp, svcPC, svcI,
                 svcStamp, txSeen, txPrev, txLast>>
  /\ UNCHANGED <<clockVars, decBaseVars, decCountVars, codecVars>>

\* The channels a new SACCH can copy its phy from: one that was just opened,
\* and one that has been driven to its limits.
OtherChannels ==
  {[orderedPower |-> InitialMSPower * Scale, orderedTiming |-> 0,
    actualPower |-> InitialMSPower, actualTiming |-> 0,
    RSSI |-> <<0, 0, 0, 0>>, timingError |-> <<0, 0, 0, 0>>],
   [orderedPower |-> cfg.minPower * Scale, orderedTiming |-> cfg.maxTiming * Scale,
    actualPower |-> cfg.minPower, actualTiming |-> cfg.maxTiming,
    RSSI |-> <<-30, -30, -30, -30>>, timingError |-> <<2, 2, 2, 2>>]}

\* SACCHL1FEC::setPhy(other)
SacchSetPhyOther ==
  /\ encKind = "SACCH"
  /\ ctlPC = "idle" /\ opsDone < MaxOps
  /\ opsDone' = opsDone + 1
  /\ \E other \in OtherChannels :
       /\ mActualMSPower' = other.actualPower
       /\ mActualMSTiming' = other.actualTiming
       /\ mRSSI' = other.RSSI
       /\ mTimingError' = other.timingError
       /\ mPhyNew' = TRUE
       /\ mOrderedMSPower' = other.orderedPower
       /\ mOrderedMSTiming' = other.orderedTiming
  /\ UNCHANGED <<phyHeader, band, cfg, mRSSICounter, rxB, rxBursts>>
  /\ UNCHANGED <<encKind, mTotalBursts, mPrevWriteTime, mNextWriteTime, mActiveEnc,
                 mRunningEnc, ctlPC, ctlI, ctlN, ctlStamp, ctlOp, svcPC, svcI,
                 svcStamp, txSeen, txPrev, txLast>>
  /\ UNCHANGED <<clockVars, decBaseVars, decCountVars, codecVars>>

\* XCCHL1Encoder::writeHighSide(DATA) on the SACCH: resync, then
\* SACCHL1Encoder::sendFrame up to waitToSend in transmit.  The loop runs when
\* the decoder has new measurements; the header is written either way.
SacchSendFrame ==
  /\ encKind = "SACCH"
  /\ ctlPC = "idle" /\ opsDone < MaxOps
  /\ opsDone' = opsDone + 1
  /\ mNextWriteTime' = resync(mNextWriteTime, mTotalBursts)
  /\ IF mPhyNew
       THEN /\ mOrderedMSPower' = loopPower(mOrderedMSPower, mActualMSPower, Mean4(mRSSI))
            /\ mOrderedMSTiming' =
                 loopTiming(mOrderedMSTiming, mActualMSTiming, Mean4(mTimingError))
            /\ mPhyNew' = FALSE
       ELSE UNCHANGED <<mOrderedMSPower, mOrderedMSTiming, mPhyNew>>
  /\ phyHeader' = physicalHeader(mOrderedMSPower', mOrderedMSTiming')
  /\ ctlOp' = "data"
  /\ ctlPC' = "wait"
  /\ ctlI' = 0
  /\ ctlN' = 4
  /\ UNCHANGED <<band, cfg, sacchDecVars, mRSSI, mTimingError, mRSSICounter, rxB, rxBursts>>
  /\ UNCHANGED <<encKind, mTotalBursts, mPrevWriteTime, mActiveEnc, mRunningEnc,
                 ctlStamp, svcPC, svcI, svcStamp, txSeen, txPrev, txLast>>
  /\ UNCHANGED <<clockVars, decBaseVars, decCountVars, codecVars>>

\* XCCHL1Decoder::writeLowSide on the SACCH for one uplink burst: the
\* measurements of processBurst, and for the burst B = 3 the outcome of the
\* decode: a good frame carries the handset's power code and timing advance.
SacchWriteLowSide ==
  /\ rxBursts < MaxRxBursts
  /\ activeDec
  /\ rxBursts' = rxBursts + 1
  /\ rxB' = (rxB + 1) % 4
  /\ \E m \in Measurements :
       /\ mRSSI' = [mRSSI EXCEPT ![mRSSICounter + 1] = m[1]]
       /\ mTimingError' = [mTimingError EXCEPT ![mRSSICounter + 1] = m[2]]
  /\ mRSSICounter' = IF mRSSICounter + 1 > 3 THEN 0 ELSE mRSSICounter + 1
  /\ IF rxB = 3
       THEN \E good \in BOOLEAN :
              /\ mPhyNew' = ~(good /\ mUpstream)
              /\ IF good
                THEN /\ mFER' = countGoodFrame(mFER)
                     /\ \E h \in UplinkHeaders :
                          /\ mActualMSPower' = decodePower(band, h[1])
                          /\ mActualMSTiming' =
                               IF h[2] < 64 THEN h[2] ELSE mActualMSTiming
                     /\ mT3109' = handleGoodFrameT3109
                     /\ mT3101' = handleGoodFrameT3101
                ELSE /\ mFER' = countBadFrame(mFER)
                     /\ UNCHANGED <<sacchDecVars, mT3109, mT3101>>
       ELSE /\ mPhyNew' = TRUE
            /\ UNCHANGED <<mFER, sacchDecVars, mT3109, mT3101>>
  /\ UNCHANGED <<band, cfg, sacchEncVars, mActiveDec, mT3111, decOps>>
  /\ UNCHANGED <<clockVars, encVars, codecVars>>
----------------------------------------------------------------------------
(* Calls of the power control functions: SACCHL1Decoder::setPhy reads the   *)
(* code of an uplink header through decodePower, SACCHL1Encoder::sendFrame  *)
(* turns the ordered power into a code through encodePower.                 *)

MaxDBm == 45

\* The powers a caller may hand to encodePower.
PowerInputs == (0 - MaxDBm)..MaxDBm

\* decodePower(code) for a code of the 5-bit field.
PwrDecode ==
  /\ \E code \in 0..31 :
       /\ pwrCode' = code
       /\ pwrDBm' = decodePower(band, code)
  /\ pwrOut' = -1
  /\ UNCHANGED <<clockVars, encVars, decBaseVars, decCountVars, sacchVars,
                 codecEncVars, air, codecDecVars, codecTagVars, tchVars, ilvVars, queueVars, hsVars, moreVars>>

\* A caller chooses a power in dBm of its own.
PwrOrder ==
  /\ \E power \in PowerInputs : pwrDBm' = power
  /\ pwrCode' = -1
  /\ pwrOut' = -1
  /\ UNCHANGED <<clockVars, encVars, decBaseVars, decCountVars, sacchVars,
                 codecEncVars, air, codecDecVars, codecTagVars, tchVars, ilvVars, queueVars, hsVars, moreVars>>

\* encodePower(power) on the power last decoded or chosen.
PwrEncode ==
  /\ pwrOut = -1
  /\ pwrOut' = encodePower(band, pwrDBm)
  /\ UNCHANGED <<pwrCode, pwrDBm>>
  /\ UNCHANGED <<clockVars, encVars, decBaseVars, decCountVars, sacchVars,
                 codecEncVars, air, codecDecVars, codecTagVars, tchVars, ilvVars, queueVars, hsVars, moreVars>>
----------------------------------------------------------------------------
(* Bit vectors, the FIRE block coder, the rate-1/2 convolutional coder and  *)
(* its Viterbi decoder.  A bit vector is a sequence of 0 and 1; a soft      *)
(* vector is a sequence of 0, 1 and 2 standing for 0.0, 0.5 and 1.0.        *)

Xor(a, b) == (a + b) % 2

\* The value of a vector as a plain sequence.
Vec(f) == SubSeq(f, 1, Len(f))

Zeros(n) == Vec([i \in 1..n |-> 0])

\* BitVector::LSB8MSB: the bits of every octet in reverse order.
LSB8MSB(d) == Vec([i \in 1..Len(d) |-> d[8 * ((i - 1) \div 8) + 8 - ((i - 1) % 8)]])

\* BitVector::invert
Invert(d) == Vec([i \in 1..Len(d) |-> 1 - d[i]])

\* The FIRE generator 0x10004820009 = D^40 + D^26 + D^23 + D^17 + D^3 + 1 as
\* the places of its low coefficients in a 40-bit register written high bit
\* first.
ParitySize == 40
FireTaps == {40 - 26, 40 - 23, 40 - 17, 40 - 3, 40}

\* Generator::encoderShift on the register r of a generator with these taps.
encoderShift(taps, r, inBit) ==
  LET fb == Xor(r[1], inBit)
  IN Vec([i \in 1..Len(r) |->
            Xor(IF i < Len(r) THEN r[i + 1] ELSE 0,
                IF fb = 1 /\ i \in taps THEN 1 ELSE 0)])

\* Generator::syndromeShift
syndromeShift(taps, r, inBit) ==
  LET fb == r[1]
  IN Vec([i \in 1..Len(r) |->
            Xor(IF i < Len(r) THEN r[i + 1] ELSE inBit,
                IF fb = 1 /\ i \in taps THEN 1 ELSE 0)])

\* BitVector::parity: the register after encoderShift over d[lo..hi].
RECURSIVE parityShifts(_, _, _, _, _)
parityShifts(taps, d, lo, hi, r) ==
  IF lo > hi THEN r
  ELSE IF lo = hi THEN encoderShift(taps, r, d[lo])
  ELSE LET mid == (lo + hi) \div 2
           left == parityShifts(taps, d, lo, mid, r)
       IN IF Len(left) = Len(r) THEN parityShifts(taps, d, mid + 1, hi, left) ELSE left

\* BitVector::syndrome: the register after syndromeShift over dp[lo..hi].
RECURSIVE syndromeShifts(_, _, _, _, _)
syndromeShifts(taps, dp, lo, hi, r) ==
  IF lo > hi THEN r
  ELSE IF lo = hi THEN syndromeShift(taps, r, dp[lo])
  ELSE LET mid == (lo + hi) \div 2
           left == syndromeShifts(taps, dp, lo, mid, r)
       IN IF Len(left) = Len(r) THEN syndromeShifts(taps, dp, mid + 1, hi, left) ELSE left

\* Parity::writeParityWord: the parity word of d, inverted, high bit first.
writeParityWord(d) == Invert(parityShifts(FireTaps, d, 1, Len(d), Zeros(ParitySize)))

\* Parity::syndrome
syndrome(dp) == syndromeShifts(FireTaps, dp, 1, Len(dp), Zeros(ParitySize))

\* ViterbiR2O4::encode: c[2k] = u[k] + u[k-3] + u[k-4],
\* c[2k+1] = u[k] + u[k-1] + u[k-3] + u[k-4], from the all-zero state.
UBit(u, k) == IF k < 1 THEN 0 ELSE u[k]
ConvEncode(u) ==
  Vec([m \in 1..(2 * Len(u)) |->
         LET k == (m + 1) \div 2 IN
         IF m % 2 = 1
           THEN (UBit(u, k) + UBit(u, k - 3) + UBit(u, k - 4)) % 2
           ELSE (UBit(u, k) + UBit(u, k - 1) + UBit(u, k - 3) + UBit(u, k - 4)) % 2])

\* ViterbiR2O4::decode.  A trellis state s in 0..15 holds the last four input
\* bits, the newest in the high place; a path metric is the summed distance
\* between the soft bits received and the bits the path would have sent.
ViterbiInf == 100000
Out0(s, u) == (u + ((s \div 2) % 2) + (s % 2)) % 2
Out1(s, u) == (u + (s \div 8) + ((s \div 2) % 2) + (s % 2)) % 2
Branch(s, u, r0, r1) == Abs(2 * Out0(s, u) - r0) + Abs(2 * Out1(s, u) - r1)

\* The metric of reaching state t through its predecessor (t % 8) * 2 + x0.
Cand(met, t, x0, r0, r1) ==
  LET p == (t % 8) * 2 + x0 IN met[p + 1] + Branch(p, t \div 8, r0, r1)

\* The better of the two ways into state t: <<metric, predecessor's low bit>>.
NewMet(met, t, r0, r1) ==
  LET a == Cand(met, t, 0, r0, r1)
      b == Cand(met, t, 1, r0, r1)
  IN IF a <= b THEN <<a, 0>> ELSE <<b, 1>>

\* One trellis step over a pair of soft bits: <<metrics, decisions>>.
StepAll(met, r0, r1) == Vec([t \in 1..16 |-> NewMet(met, t - 1, r0, r1)])
StepSplit(nm) == <<Vec([t \in 1..16 |-> nm[t][1]]), Vec([t \in 1..16 |-> nm[t][2]])>>
Step(met, r0, r1) == StepSplit(StepAll(met, r0, r1))

\* The forward pass over steps lo..hi; acc is <<metrics, decisions so far>>.
ForwardOne(c, k, acc) ==
  LET st == Step(acc[1], c[2 * k - 1], c[2 * k])
  IN <<st[1], Append(acc[2], st[2])>>
RECURSIVE Forward(_, _, _, _)
Forward(c, lo, hi, acc) ==
  IF lo > hi THEN acc
  ELSE IF lo = hi THEN ForwardOne(c, lo, acc)
  ELSE LET mid == (lo + hi) \div 2
           left == Forward(c, lo, mid, acc)
       IN IF Len(left) = 2 THEN Forward(c, mid + 1, hi, left) ELSE left

\* The first state of least metric.
RECURSIVE ArgMin(_, _, _)
ArgMin(met, i, best) ==
  IF i > 16 THEN best
  ELSE ArgMin(met, i + 1, IF met[i] < met[best] THEN i ELSE best)

\* The trace back over steps hi..lo; acc is <<state, bits decided so far>>.
TraceOne(decs, k, acc) ==
  LET s == acc[1] IN <<(s % 8) * 2 + decs[k][s + 1], <<s \div 8>> \o acc[2]>>
RECURSIVE Trace(_, _, _, _)
Trace(decs, lo, hi, acc) ==
  IF lo > hi THEN acc
  ELSE IF lo = hi THEN TraceOne(decs, lo, acc)
  ELSE LET mid == (lo + hi) \div 2
           right == Trace(decs, mid + 1, hi, acc)
       IN IF Len(right) = 2 THEN Trace(decs, lo, mid, right) ELSE right

\* SoftVector::decode: the most likely input of the encoder, from state 0.
Viterbi(cc) ==
  LET c == Vec(cc)
      n == Len(c) \div 2
      init == <<0, ViterbiInf, ViterbiInf, ViterbiInf, ViterbiInf, ViterbiInf,
                ViterbiInf, ViterbiInf, ViterbiInf, ViterbiInf, ViterbiInf,
                ViterbiInf, ViterbiInf, ViterbiInf, ViterbiInf, ViterbiInf>>
      f == Forward(c, 1, n, <<init, <<>> >>)
      s == ArgMin(f[1], 1, 1) - 1
  IN Trace(f[2], 1, n, <<s, <<>> >>)[2]

----------------------------------------------------------------------------
(* The XCCH pipeline, GSM 05.03 4.1.  The interleave buffers i[B][j] are    *)
(* sequences of four rows of 114 cells; index k, B or j of the code is      *)
(* place k + 1, B + 1 or j + 1 of the sequence.                             *)

\* XCCHL1Encoder::interleave: the cell c[k] goes to.
xcchInterleaveCellSlipped(k) == [B |-> k % 4, j |-> 2 * ((48 * k) % 57) + ((k % 8) \div 4)]

xcchInterleaveCell(k) == [B |-> k % 4, j |-> 2 * ((49 * k) % 57) + ((k % 8) \div 4)]

\* XCCHL1Decoder::deinterleave: the cell c[k] comes from.
xcchDeinterleaveCellOdd(k) == [B |-> k % 4, j |-> 2 * ((49 * k) % 57) + ((k % 4) \div 2)]

xcchDeinterleaveCell(k) == [B |-> k % 4, j |-> 2 * ((49 * k) % 57) + ((k % 8) \div 4)]

\* XCCHL1Encoder::interleave, the loop over k = lo..hi: mI[B][j] = mC[k].
RECURSIVE xcchInterleaveLoop(_, _, _, _)
xcchInterleaveLoop(c, lo, hi, I) ==
  IF lo > hi THEN I
  ELSE IF lo = hi
    THEN LET cell == xcchInterleaveCell(lo)
         IN [I EXCEPT ![cell.B + 1][cell.j + 1] = c[lo + 1]]
  ELSE LET mid == (lo + hi) \div 2
           left == xcchInterleaveLoop(c, lo, mid, I)
       IN IF Len(left) = 4 THEN xcchInterleaveLoop(c, mid + 1, hi, left) ELSE left

xcchInterleave(c, I) == xcchInterleaveLoop(c, 0, 455, I)

\* XCCHL1Decoder::deinterleave, the loop over k = lo..hi on acc = <<mC, mI>>:
\* mC[k] = mI[B][j]; mI[B][j] = 0.5F.
RECURSIVE xcchDeinterleaveLoop(_, _, _, _)
xcchDeinterleaveLoop(lo, hi, acc, neutral) ==
  IF lo > hi THEN acc
  ELSE IF lo = hi
    THEN LET cell == xcchDeinterleaveCell(lo)
         IN <<[acc[1] EXCEPT ![lo + 1] = acc[2][cell.B + 1][cell.j + 1]],
              [acc[2] EXCEPT ![cell.B + 1][cell.j + 1] = neutral]>>
  ELSE LET mid == (lo + hi) \div 2
           left == xcchDeinterleaveLoop(lo, mid, acc, neutral)
       IN IF Len(left) = 2
            THEN xcchDeinterleaveLoop(mid + 1, hi, left, neutral) ELSE left

\* <<mC, mI>> after deinterleave; neutral is what it leaves in the cells read.
xcchDeinterleave(C, I, neutral) == xcchDeinterleaveLoop(0, 455, <<C, I>>, neutral)

Neutral == 1
Rows(n, v) == Vec([B \in 1..n |-> Vec([j \in 1..114 |-> v])])

\* The training sequence of TSC 0, GSM 05.02 5.2.3.
TrainingSequence ==
  <<0, 0, 1, 0, 0, 1, 0, 1, 1, 1, 0, 0, 0, 0, 1, 0, 0, 0, 1, 0, 0, 1, 0, 1, 1, 1>>

\* The normal burst of XCCHL1Encoder::transmit: i[B][0..56] at bits 3..59,
\* the stealing flags Hl at bit 60 and Hu at bit 87, the training sequence at
\* bits 61..86, i[B][57..113] at bits 88..144, tail bits zero.
NormalBurst(row, Hl, Hu) ==
  Vec([n \in 1..148 |->
         LET b == n - 1 IN
         IF b >= 3 /\ b < 60 THEN row[b - 3 + 1]
         ELSE IF b = 60 THEN Hl
         ELSE IF b >= 61 /\ b < 87 THEN TrainingSequence[b - 61 + 1]
         ELSE IF b = 87 THEN Hu
         ELSE IF b >= 88 /\ b < 145 THEN row[57 + b - 88 + 1]
         ELSE 0])

\* The radio loop: a transmitted bit comes back as the confidence 0.0 or 1.0.
Loopback(bits) == Vec([n \in 1..Len(bits) |-> 2 * bits[n]])

\* XCCHL1Decoder::processBurst: data1() is segment(3,57) of the burst and
\* data2() is segment(88,57); they fill i[B][0..56] and i[B][57..113].
rxData(soft) ==
  Vec([n \in 1..114 |-> IF n <= 57 THEN soft[3 + n] ELSE soft[88 + n - 57]])

\* The L2 frames handed down in the runs: 23 octets, high bit first.
PayloadOctet(id, n) ==
  CASE id = 0 -> n
    [] id = 1 -> 0
    [] id = 2 -> 255
    [] id = 3 -> 43
    [] id = 4 -> (37 * n + 11) % 256
    [] id = 5 -> IF n = 0 THEN 128 ELSE IF n = 22 THEN 1 ELSE 0
Payload(id) ==
  Vec([i \in 1..184 |->
         (PayloadOctet(id, (i - 1) \div 8) \div (2 ^ (7 - ((i - 1) % 8)))) % 2])

headerOffset(kind) == IF kind = "SACCH" THEN 16 ELSE 0

\* XCCHL1Encoder::sendFrame up to interleave: u[], c[] and i[][] for an L2
\* frame, given the u[] and i[][] the encoder holds.
xcchEncodeU(u, frame, kind) ==
  LET ho == headerOffset(kind)
      copied == Vec([i \in 1..228 |->
                       IF i > ho /\ i <= ho + Len(frame) THEN frame[i - ho] ELSE u[i]])
      d == LSB8MSB(SubSeq(copied, 1, 184))
  IN d \o writeParityWord(d) \o SubSeq(copied, 225, 228)

\* XCCHL1Decoder::decode and the LSB8MSB of a good frame: u[] after Viterbi
\* with p[] inverted in place, whether the syndrome is zero, and d[] in
\* octet order.
xcchDecode(c) ==
  LET u == Viterbi(c)
      d == SubSeq(u, 1, 184)
      p == Invert(SubSeq(u, 185, 224))
      good == syndrome(d \o p) = Zeros(ParitySize)
  IN [good |-> good,
      mU |-> (IF good THEN LSB8MSB(d) ELSE d) \o p \o SubSeq(u, 225, 228)]

CtorTag == 0
NeutralTag == -1

\* Bursts the radio holds at a time: it delivers a burst within its frame.
MaxAir == 1

\* What the radio measured on a looped-back burst.
LoopRSSI == -50
LoopTimingError == 0

\* XCCHL1Encoder::writeHighSide(DATA): resync, then sendFrame up to the
\* waitToSend of transmit: the frame goes into u[], d[] is put in LSB-first
\* octet order, encode and interleave fill c[] and i[][].
xcchWriteData ==
  /\ encKind = "XCCH"
  /\ sentFrames < Len(script)
  /\ L1EncoderWriteData
  /\ sentFrames' = sentFrames + 1
  /\ mUenc' = xcchEncodeU(mUenc, Payload(script[sentFrames + 1]), encKind)
  /\ mCenc' = ConvEncode(mUenc')
  /\ mIenc' = xcchInterleave(mCenc', mIenc)
  /\ UNCHANGED <<script, air, codecDecVars, codecTagVars, tchVars, ilvVars, pwrVars,
                 queueVars, moreVars>>
  /\ UNCHANGED <<clockVars, decBaseVars, decCountVars, sacchVars>>

XcchWriteHighSideData == xcchWriteData /\ UNCHANGED hsVars

\* One turn of the burst loop of XCCHL1Encoder::transmit: the burst takes
\* mNextWriteTime and row B of i[][] and goes to the radio; rollForward.
XcchTransmitBurst ==
  /\ encKind = "XCCH"
  /\ ctlOp = "data"
  /\ Len(air) < MaxAir
  /\ L1EncoderWriteBurst
  /\ air' = Append(air, [time |-> mNextWriteTime, frame |-> sentFrames, B |-> ctlI,
                         bits |-> NormalBurst(mIenc[ctlI + 1], 1, 1)])
  /\ UNCHANGED <<codecEncVars, codecDecVars, codecTagVars, tchVars, ilvVars, pwrVars, queueVars, hsVars, moreVars>>
  /\ UNCHANGED <<clockVars, decBaseVars, decCountVars, sacchVars>>

\* Bursts the radio may drop in a run.
MaxLost == 2

RECURSIVE CountGot(_, _)
CountGot(got, f) ==
  IF f = 0 THEN 0 ELSE Cardinality(got[f]) + CountGot(got, f - 1)

\* Bursts sent that neither reached the decoder nor are on their way.
XcchLost == mTotalBursts - Len(air) - CountGot(rxGot, Len(rxGot))

\* The radio never delivers the burst.
XcchLoseBurst ==
  /\ air # <<>>
  /\ XcchLost < MaxLost
  /\ air' = Tail(air)
  /\ UNCHANGED <<codecEncVars, codecDecVars, codecTagVars, tchVars, ilvVars, pwrVars, queueVars, hsVars, moreVars>>
  /\ UNCHANGED <<clockVars, encVars, decBaseVars, decCountVars, sacchVars>>

\* XCCHL1Decoder::processBurst, the measurements; read says that
\* handleGoodFrame then hands RSSI() and TA() upstream, which clears mPhyNew.
processBurstPhy(read) ==
  /\ mRSSI' = [mRSSI EXCEPT ![mRSSICounter + 1] = LoopRSSI]
  /\ mTimingError' = [mTimingError EXCEPT ![mRSSICounter + 1] = LoopTimingError]
  /\ mPhyNew' = ~read
  /\ mRSSICounter' = IF mRSSICounter + 1 > 3 THEN 0 ELSE mRSSICounter + 1

\* XCCHL1Decoder::writeLowSide for the burst the radio delivers next.  A
\* decoder that is not active drops it.  Otherwise processBurst files it under
\* B = reverseMapping(FN) % 4, and the burst B = 3 sets off deinterleave and
\* decode: a zero syndrome counts a good frame and hands d[] upstream, anything
\* else counts a bad frame.
xcchLowSide(burst, act) ==
  /\ LET B == reverseMapping(encKind, burst.time.FN) % 4
         I1 == [mIdec EXCEPT ![B + 1] = rxData(Loopback(burst.bits))]
         T1 == [mItag EXCEPT ![B + 1] = [j \in 1..114 |-> burst.frame]]
         dv == xcchDeinterleave(mCdec, I1, Neutral)
         dt == xcchDeinterleave(mCtag, T1, NeutralTag)
         dec == xcchDecode(dv[1])
     IN IF ~act
          THEN UNCHANGED <<codecDecVars, codecTagVars, phyVars, decBaseVars, mFER>>
          ELSE /\ processBurstPhy(B = 3 /\ dec.good /\ mUpstream)
               /\ mReadTime' = IF B = 0 THEN burst.time ELSE mReadTime
               /\ rxGot' = [rxGot EXCEPT ![burst.frame] = @ \cup {B}]
               /\ IF B # 3
                    THEN /\ mIdec' = I1
                         /\ mItag' = T1
                         /\ UNCHANGED <<mCdec, mUdec, upFrames, mCtag, rxResult,
                                        deintFrame, decBaseVars, mFER>>
                    ELSE /\ mCdec' = dv[1]
                         /\ mIdec' = dv[2]
                         /\ mCtag' = dt[1]
                         /\ mItag' = dt[2]
                         /\ deintFrame' = burst.frame
                         /\ mUdec' = dec.mU
                         /\ rxResult' = [rxResult EXCEPT ![burst.frame] =
                                           IF dec.good THEN "good" ELSE "bad"]
                         /\ IF dec.good
                              THEN /\ mFER' = countGoodFrame(mFER)
                                   /\ mT3109' = handleGoodFrameT3109
                                   /\ mT3101' = handleGoodFrameT3101
                                   /\ upFrames' = IF ~mUpstream THEN upFrames
                                        ELSE Append(upFrames,
                                        [frame |-> burst.frame,
                                         bits |-> SubSeq(dec.mU, headerOffset(encKind) + 1, 184),
                                         time |-> mReadTime'])
                              ELSE /\ mFER' = countBadFrame(mFER)
                                   /\ UNCHANGED <<mT3109, mT3101, upFrames>>
                         /\ UNCHANGED <<mActiveDec, mT3111>>
  /\ UNCHANGED <<codecEncVars, decOps, tchVars, ilvVars, pwrVars, queueVars, hsVars>>
  /\ UNCHANGED <<clockVars, encVars, band, cfg, sacchEncVars, sacchDecVars, rxB, rxBursts>>

XcchWriteLowSide ==
  /\ air # <<>>
  /\ air' = Tail(air)
  /\ xcchLowSide(Head(air), activeDec)
  /\ UNCHANGED moreVars
----------------------------------------------------------------------------
(* The TCH/FACCH pipeline, GSM 05.03 3.1.  The interleave buffers are eight *)
(* rows of 114 cells.                                                       *)

\* TCHFACCHL1Encoder::interleave: the cell c[k] goes to.
tchInterleaveCellFlat(k, blockOffset) ==
  [B |-> k % 8, j |-> 2 * ((49 * k) % 57) + ((k % 8) \div 4)]

tchInterleaveCell(k, blockOffset) ==
  [B |-> (k + blockOffset) % 8, j |-> 2 * ((49 * k) % 57) + ((k % 8) \div 4)]

\* TCHFACCHL1Decoder::deinterleave: the cell c[k] comes from.
tchDeinterleaveCell(k, blockOffset) ==
  [B |-> (k + blockOffset) % 8, j |-> 2 * ((49 * k) % 57) + ((k % 8) \div 4)]

\* TCHFACCHL1Encoder::interleave, the loop over k = lo..hi: mI[B][j] = mC[k].
RECURSIVE tchInterleaveLoop(_, _, _, _, _)
tchInterleaveLoop(c, blockOffset, lo, hi, I) ==
  IF lo > hi THEN I
  ELSE IF lo = hi
    THEN LET cell == tchInterleaveCell(lo, blockOffset)
         IN [I EXCEPT ![cell.B + 1][cell.j + 1] = c[lo + 1]]
  ELSE LET mid == (lo + hi) \div 2
           left == tchInterleaveLoop(c, blockOffset, lo, mid, I)
       IN IF Len(left) = 8
            THEN tchInterleaveLoop(c, blockOffset, mid + 1, hi, left) ELSE left

tchInterleave(c, blockOffset, I) == tchInterleaveLoop(c, blockOffset, 0, 455, I)

\* TCHFACCHL1Decoder::deinterleave, the loop over k = lo..hi on
\* acc = <<mC, mI>>: mC[k] = mI[B][j]; mI[B][j] = 0.5F.
RECURSIVE tchDeinterleaveLoop(_, _, _, _, _)
tchDeinterleaveLoop(blockOffset, lo, hi, acc, neutral) ==
  IF lo > hi THEN acc
  ELSE IF lo = hi
    THEN LET cell == tchDeinterleaveCell(lo, blockOffset)
         IN <<[acc[1] EXCEPT ![lo + 1] = acc[2][cell.B + 1][cell.j + 1]],
              [acc[2] EXCEPT ![cell.B + 1][cell.j + 1] = neutral]>>
  ELSE LET mid == (lo + hi) \div 2
           left == tchDeinterleaveLoop(blockOffset, lo, mid, acc, neutral)
       IN IF Len(left) = 2
            THEN tchDeinterleaveLoop(blockOffset, mid + 1, hi, left, neutral) ELSE left

tchDeinterleave(C, I, blockOffset, neutral) ==
  tchDeinterleaveLoop(blockOffset, 0, 455, <<C, I>>, neutral)

\* The phase of deinterleave with the two halves of the diagonal changed over.
blockOffsetForSwapped(B) == IF B = 3 THEN 0 ELSE 4

\* TCHFACCHL1Decoder::processBurst: if (B==3) deinterleave(4); else deinterleave(0);
blockOffsetFor(B) == IF B = 3 THEN 4 ELSE 0

\* dispatch: if (mOffset==0) mOffset=4; else mOffset=0;
nextOffsetStuck(o) == 0

nextOffset(o) == IF o = 0 THEN 4 ELSE 0

\* The filler block of dispatch, sent when neither queue has a frame.
fillerC ==
  <<
  1, 1, 0, 1, 0, 0, 0, 0, 1, 0, 0, 0, 1, 1, 1, 1, 0, 0, 0, 0, 0, 0, 0, 0, 1, 1, 1, 0, 0, 1, 1, 1, 1, 1, 0, 1, 0, 1,
  1, 1, 0, 0, 1, 1, 1, 1, 0, 1, 0, 0, 1, 1, 1, 1, 0, 0, 0, 0, 0, 0, 0, 0, 0, 0, 0, 0, 1, 1, 0, 1, 1, 1, 1, 0, 1, 1,
  1, 1, 1, 1, 1, 1, 1, 0, 1, 0, 0, 1, 1, 0, 1, 0, 1, 0, 1, 0, 1, 0, 1, 0, 1, 0, 1, 0, 1, 0, 1, 0, 1, 0, 1, 0, 1, 0,
  1, 0, 1, 0, 1, 0, 1, 0, 1, 0, 1, 0, 1, 0, 1, 0, 1, 0, 0, 1, 0, 0, 0, 0, 1, 1, 0, 0, 0, 0, 0, 0, 0, 0, 0, 0, 0, 0,
  0, 0, 0, 0, 0, 0, 0, 0, 0, 0, 0, 0, 0, 0, 0, 0, 0, 0, 0, 0, 0, 0, 0, 0, 0, 0, 0, 0, 0, 0, 1, 1, 0, 1, 0, 0, 1, 1,
  1, 1, 0, 0, 0, 0, 0, 0, 0, 0, 0, 0, 0, 0, 0, 0, 0, 0, 0, 0, 0, 0, 0, 0, 0, 0, 0, 0, 0, 0, 0, 0, 0, 0, 0, 0, 0, 0,
  0, 0, 0, 0, 0, 0, 0, 0, 0, 0, 0, 0, 1, 1, 1, 0, 1, 0, 0, 1, 1, 0, 1, 0, 1, 0, 1, 0, 1, 0, 1, 0, 1, 0, 1, 0, 1, 0,
  1, 0, 1, 0, 1, 0, 1, 0, 1, 0, 1, 0, 1, 0, 1, 0, 1, 0, 1, 0, 1, 0, 1, 0, 1, 0, 0, 1, 0, 0, 0, 0, 1, 1, 0, 0, 0, 0,
  0, 0, 0, 0, 0, 0, 0, 0, 0, 0, 0, 0, 0, 0, 1, 1, 0, 1, 0, 0, 1, 1, 1, 1, 0, 0, 0, 0, 0, 0, 0, 0, 1, 1, 1, 0, 0, 1,
  1, 1, 1, 1, 0, 1, 1, 0, 1, 0, 0, 0, 0, 0, 1, 1, 0, 0, 0, 0, 1, 1, 0, 1, 0, 0, 1, 1, 1, 1, 0, 0, 0, 0, 0, 0, 0, 0,
  0, 0, 0, 0, 0, 0, 0, 0, 0, 0, 0, 1, 1, 0, 0, 1, 1, 0, 0, 0, 0, 0, 0, 0, 0, 0, 0, 0, 0, 0, 0, 0, 0, 0, 0, 0, 0, 0,
  0, 0, 0, 0, 0, 0, 0, 0, 0, 0, 0, 0, 0, 0, 0, 0, 0, 0, 0, 0, 0, 0, 0, 0, 0, 0, 0, 0, 0, 0, 0, 0, 0, 0, 0, 0, 0, 1
  >>

\* g610BitOrder, GSM 05.03 Table 2: a permutation of the 260 bit places of a
\* speech frame.  The table is not reproduced; this permutation stands in.
g610BitOrder == Vec([i \in 1..260 |-> (7 * (i - 1) + 3) % 260])

\* BitVector::map: dst[i] = src[map[i]].
BitMap(map, src) == Vec([i \in 1..Len(map) |-> src[map[i] + 1]])

\* BitVector::unmap: dst[map[i]] = src[i].
BitUnmap(map, src) ==
  Vec([n \in 1..Len(map) |-> src[CHOOSE i \in 1..Len(map) : map[i] = n - 1]])

\* SoftVector::sliced: a soft value above 0.5 is a 1.
Sliced(soft) == Vec([i \in 1..Len(soft) |-> IF soft[i] > Neutral THEN 1 ELSE 0])

\* mTCHParity(0x0b, 3, 50): the generator D^3 + D + 1 over d[0..49].
TchParitySize == 3
TchTaps == {3 - 1, 3}
tchParity(d) == parityShifts(TchTaps, d, 1, 50, Zeros(TchParitySize))

\* VocoderFrame: the four bits 1101 and the 260 bits of payload, 33 octets.
VocoderHeader == <<1, 1, 0, 1>>
VocoderFrame(payload) == VocoderHeader \o payload
VocoderPayload(frame) == SubSeq(frame, 5, 264)

\* The speech frames of the runs.
SpeechBit(id, i) ==
  CASE id = 0 -> 0
    [] id = 1 -> 1
    [] id = 2 -> ((i * i + 3 * i) \div 5) % 2
    [] id = 3 -> IF i % 13 = 0 \/ i % 7 = 3 THEN 1 ELSE 0
SpeechFrame(id) == VocoderFrame(Vec([i \in 1..260 |-> SpeechBit(id, i - 1)]))

\* TCHFACCHL1Encoder::encodeTCH: d[] is the payload in g610BitOrder; u[] takes
\* the class 1 bits of d[] from both ends inwards, the inverted parity of
\* d[0..49] at 91..93 and four zero tail bits.
tchEncodeD(vFrame) == BitMap(g610BitOrder, VocoderPayload(vFrame))
tchEncodeU(d) ==
  LET p == Invert(tchParity(d))
  IN Vec([n \in 1..189 |->
            LET k == n - 1 IN
            IF k <= 90 THEN d[2 * k + 1]
            ELSE IF k <= 93 THEN p[k - 91 + 1]
            ELSE IF k <= 184 THEN d[2 * (184 - k) + 1 + 1]
            ELSE 0])

\* c[0..377] is u[] through the convolutional coder, c[378..455] the class 2
\* bits d[182..259].
tchEncodeC(u, d) == ConvEncode(u) \o SubSeq(d, 183, 260)

\* TCHFACCHL1Decoder::decodeTCH on a block that was not stolen: u[] from the
\* Viterbi decoder, d[] from u[] and the sliced class 2 bits, and good when the
\* parity sent matches the parity of d[0..49] and the tail is zero.
tchDecode(c) ==
  LET u == Viterbi(SubSeq(c, 1, 378))
      class2 == Sliced(SubSeq(c, 379, 456))
      d == Vec([n \in 1..260 |->
                  LET i == n - 1 IN
                  IF i >= 182 THEN class2[i - 182 + 1]
                  ELSE IF i % 2 = 0 THEN u[(i \div 2) + 1]
                  ELSE u[184 - (i \div 2) + 1]])
      sentParity == Invert(SubSeq(u, 92, 94))
      calcParity == tchParity(d)
      tail == SubSeq(u, 186, 189)
      good == sentParity = calcParity /\ tail = Zeros(4)
  IN [good |-> good, mTCHU |-> u, mTCHD |-> d,
      frame |-> IF good THEN VocoderFrame(BitUnmap(g610BitOrder, d)) ELSE <<>>]

\* The FACCH frames of the runs, by Payload id, and how many a run queues.
FacchIds == {0, 3}
MaxFacch == 2
----------------------------------------------------------------------------
(* The TCH/FACCH encoder's dispatch thread with its speech and FACCH        *)
(* queues, and the TCH/FACCH decoder.                                       *)

\* Blocks the dispatch thread sends in a run.
MaxBlocks == 3

Max(a, b) == IF a > b THEN a ELSE b

\* The latency control that lets one frame more stay in the queue.
RECURSIVE speechLatencyControlLax(_, _)
speechLatencyControlLax(q, maxQ) ==
  IF Len(q) > maxQ + 1 THEN speechLatencyControlLax(Tail(q), maxQ) ELSE q

\* while (mSpeechQ.size() > maxQ) delete mSpeechQ.read();
RECURSIVE speechLatencyControl(_, _)
speechLatencyControl(q, maxQ) ==
  IF Len(q) > maxQ THEN speechLatencyControl(Tail(q), maxQ) ELSE q

\* The choice that looks at the speech queue before the FACCH queue.
dispatchChoiceSpeechFirst(l2q, q) ==
  IF q # <<>> THEN "speech" ELSE IF l2q # <<>> THEN "facch" ELSE "filler"

\* Send, by priority: (1) FACCH, (2) TCH, (3) filler.
dispatchChoice(l2q, q) ==
  IF l2q # <<>> THEN "facch" ELSE IF q # <<>> THEN "speech" ELSE "filler"

\* TCHFACCHL1Encoder::sendFrame: the L2 frame joins the FACCH queue.  The
\* queue is read only where dispatch chooses, so the writes are taken there,
\* when dispatch is about to come out of waitToSend.  Layer 2 sends frames
\* from ids, at most limit of them in a run.
sendFrame(ids, limit) ==
  /\ encKind = "TCHFACCH" /\ svcPC = "wait"
  /\ ClockReached(mPrevWriteTime)
  /\ Len(mL2Q) + Len(SelectSeq(dispatched, LAMBDA d : d.choice = "facch")) < limit
  /\ \E id \in ids : mL2Q' = Append(mL2Q, id)
  /\ UNCHANGED <<mSpeechQ, currentFACCH, dispatched>>
  /\ UNCHANGED <<codecEncVars, air, codecDecVars, codecTagVars, tchVars, ilvVars, pwrVars, hsVars, moreVars>>
  /\ UNCHANGED <<clockVars, encVars, decBaseVars, decCountVars, sacchVars>>

TchSendFrame == sendFrame(FacchIds, MaxFacch)

\* Layer 2 sends one FACCH frame in the call.
TchSendOneFrame == sendFrame({3}, 1)

\* The speech thread hands the next frame of the script to the speech queue.
TchSendTCH ==
  /\ encKind = "TCHFACCH" /\ svcPC = "wait"
  /\ ClockReached(mPrevWriteTime)
  /\ sentFrames < Len(script)
  /\ sentFrames' = sentFrames + 1
  /\ mSpeechQ' = Append(mSpeechQ, sentFrames + 1)
  /\ UNCHANGED <<mL2Q, currentFACCH, dispatched>>
  /\ UNCHANGED <<script, mUenc, mCenc, mIenc>>
  /\ UNCHANGED <<air, codecDecVars, codecTagVars, tchVars, ilvVars, pwrVars, hsVars, moreVars>>
  /\ UNCHANGED <<clockVars, encVars, decBaseVars, decCountVars, sacchVars>>

\* dispatch from waitToSend to the burst loop.  The latency control drops the
\* head of the speech queue while more than GSM.MaxSpeechLatency frames are
\* queued.  A FACCH frame, if one is queued, goes through the XCCH encode
\* (the tail of u[] is zero since construction) and the speech queue is
\* flushed; else the next speech frame goes through encodeTCH; else the filler
\* block goes into c[].  Then interleave(mOffset).
TchDispatchBlock ==
  /\ dispatchWaitToSend
  /\ Len(blocks) < MaxBlocks
  /\ LET q == speechLatencyControl(mSpeechQ, cfg.maxSpeechLatency)
         choice == dispatchChoice(mL2Q, q)
         d == tchEncodeD(SpeechFrame(script[Head(q)]))
     IN /\ dispatched' = Append(dispatched,
                           [l2q |-> mL2Q, before |-> mSpeechQ, after |-> q,
                            choice |-> choice])
        /\ currentFACCH' = (choice = "facch")
        /\ CASE choice = "facch" ->
                  /\ mL2Q' = Tail(mL2Q)
                  /\ mUenc' = xcchEncodeU(Zeros(228), Payload(Head(mL2Q)), "XCCH")
                  /\ mCenc' = ConvEncode(mUenc')
                  /\ mSpeechQ' = <<>>
                  /\ blocks' = Append(blocks, 0)
             [] choice = "speech" ->
                  /\ mL2Q' = mL2Q
                  /\ mUenc' = tchEncodeU(d)
                  /\ mCenc' = tchEncodeC(mUenc', d)
                  /\ mSpeechQ' = Tail(q)
                  /\ blocks' = Append(blocks, Head(q))
             [] choice = "filler" ->
                  /\ mL2Q' = mL2Q
                  /\ mUenc' = mUenc
                  /\ mCenc' = fillerC
                  /\ mSpeechQ' = q
                  /\ blocks' = Append(blocks, 0)
  /\ mIenc' = tchInterleave(mCenc', mOffset, mIenc)
  /\ UNCHANGED <<script, sentFrames, air, codecDecVars, codecTagVars, mOffset,
                 mPreviousFACCH, ilvVars, pwrVars, hsVars, moreVars>>
  /\ UNCHANGED <<clockVars, decBaseVars, decCountVars, sacchVars>>

\* The stealing flags with the two blocks changed over.
stealingFlagsSwapped(current, previous) ==
  [Hu |-> IF previous THEN 1 ELSE 0, Hl |-> IF current THEN 1 ELSE 0]

\* mBurst.Hu(currentFACCH); mBurst.Hl(mPreviousFACCH);
stealingFlags(current, previous) ==
  [Hu |-> IF current THEN 1 ELSE 0, Hl |-> IF previous THEN 1 ELSE 0]

\* One turn of dispatch's burst loop from the write on: the burst carries row
\* B + mOffset of i[][], Hu = currentFACCH and Hl = mPreviousFACCH; after the
\* fourth burst mOffset changes over and mPreviousFACCH takes currentFACCH.
TchWriteBurst ==
  /\ encKind = "TCHFACCH"
  /\ Len(air) < MaxAir
  /\ L1EncoderSvcWriteBurst
  /\ air' = Append(air, [time |-> svcStamp, frame |-> Len(blocks), B |-> svcI,
                         bits |-> NormalBurst(mIenc[svcI + mOffset + 1],
                                   stealingFlags(currentFACCH, mPreviousFACCH).Hl,
                                   stealingFlags(currentFACCH, mPreviousFACCH).Hu)])
  /\ mOffset' = IF svcI < 3 THEN mOffset ELSE nextOffset(mOffset)
  /\ mPreviousFACCH' = IF svcI < 3 THEN mPreviousFACCH ELSE currentFACCH
  /\ UNCHANGED <<codecEncVars, codecDecVars, codecTagVars, blocks, ilvVars, pwrVars,
                 queueVars, hsVars, moreVars>>
  /\ UNCHANGED <<clockVars, decBaseVars, decCountVars, sacchVars>>

\* The radio transmits the burst it holds.
RadioSend ==
  /\ air # <<>>
  /\ air' = Tail(air)
  /\ UNCHANGED <<codecEncVars, codecDecVars, codecTagVars, tchVars, ilvVars, pwrVars,
                 queueVars, hsVars, moreVars>>
  /\ UNCHANGED <<clockVars, encVars, decBaseVars, decCountVars, sacchVars>>

\* RxBurst::Hl
Hl(soft) == soft[60 + 1] > Neutral

\* What decodeTCH hands upstream for the block deinterleaved: the frame when
\* it is good, else the muted copy of the last good frame, whose content is
\* not followed here.
tchUpstream(n, t) ==
  [frame |-> n, facch |-> FALSE, good |-> t.good, bits |-> t.frame,
   time |-> mReadTime]

\* TCHFACCHL1Decoder::writeLowSide for the burst the radio delivers next.  A
\* decoder that is not active drops it.  processBurst files it under
\* B = reverseMapping(FN) % 8; the bursts B = 3 and B = 7 set off
\* deinterleave(4) and deinterleave(0).  A block marked stolen goes through
\* the XCCH decode as a FACCH frame and counts as a bad speech frame; any
\* other goes through decodeTCH and upstream.
tchLowSide(burst, act) ==
  /\ LET soft == Loopback(burst.bits)
         B == reverseMapping(encKind, burst.time.FN) % 8
         I1 == [mIdec EXCEPT ![B + 1] = rxData(soft)]
         dv == tchDeinterleave(mCdec, I1, blockOffsetFor(B), Neutral)
         stolen == Hl(soft)
         facch == xcchDecode(dv[1])
         t == tchDecode(dv[1])
         n == burst.frame - 1
     IN IF ~act
          THEN UNCHANGED <<codecDecVars, codecTagVars, phyVars, decBaseVars, mFER>>
          ELSE /\ processBurstPhy(B % 4 = 3 /\ stolen /\ facch.good /\ mUpstream)
               /\ rxGot' = [rxGot EXCEPT ![burst.frame] = @ \cup {B % 4}]
               /\ IF B % 4 # 3
                    THEN /\ mIdec' = I1
                         /\ UNCHANGED <<mCdec, mUdec, upFrames, rxResult, deintFrame,
                                        decBaseVars, mFER>>
                    ELSE /\ mCdec' = dv[1]
                         /\ mIdec' = dv[2]
                         /\ deintFrame' = n
                         /\ IF stolen
                              THEN /\ mUdec' = facch.mU
                                   /\ mFER' = countBadFrame(IF facch.good
                                                THEN countGoodFrame(mFER)
                                                ELSE countBadFrame(mFER))
                                   /\ mT3109' = IF facch.good THEN handleGoodFrameT3109
                                                ELSE mT3109
                                   /\ mT3101' = IF facch.good THEN handleGoodFrameT3101
                                                ELSE mT3101
                                   /\ upFrames' = IF facch.good /\ mUpstream
                                        THEN Append(upFrames,
                                               [frame |-> n, facch |-> TRUE,
                                                good |-> TRUE,
                                                bits |-> SubSeq(facch.mU, 1, 184),
                                                time |-> mReadTime])
                                        ELSE upFrames
                                   /\ rxResult' = IF n >= 1
                                        THEN [rxResult EXCEPT ![n] = "stolen"]
                                        ELSE rxResult
                              ELSE /\ mUdec' = t.mTCHU
                                   /\ mFER' = IF t.good THEN countGoodFrame(mFER)
                                              ELSE countBadFrame(mFER)
                                   /\ mT3109' = IF t.good THEN TimerSet(T3109Limit)
                                                ELSE mT3109
                                   /\ mT3101' = mT3101
                                   /\ upFrames' = Append(upFrames, tchUpstream(n, t))
                                   /\ rxResult' = IF n >= 1
                                        THEN [rxResult EXCEPT ![n] =
                                                IF t.good THEN "good" ELSE "bad"]
                                        ELSE rxResult
                         /\ UNCHANGED <<mActiveDec, mT3111>>
               /\ UNCHANGED <<mReadTime, mItag, mCtag>>
  /\ UNCHANGED <<codecEncVars, decOps, tchVars, ilvVars, pwrVars, queueVars, hsVars>>
  /\ UNCHANGED <<clockVars, encVars, band, cfg, sacchEncVars, sacchDecVars, rxB, rxBursts>>

TchWriteLowSide ==
  /\ encKind = "TCHFACCH"
  /\ air # <<>>
  /\ air' = Tail(air)
  /\ tchLowSide(Head(air), activeDec)
  /\ UNCHANGED moreVars
----------------------------------------------------------------------------
(* A walk through the interleave and deinterleave loops, one turn of the   *)
(* loop per step.  The block in c[] carries a label in every place, so a   *)
(* cell of i[][] tells which c[k] was written to it, and ilvWrites counts  *)
(* the writes each cell has taken.                                         *)

\* The label of c[k] of block b.
Label(b, k) == 456 * (b - 1) + k + 1
LabelBlock(b) == Vec([n \in 1..456 |-> Label(b, n - 1)])

\* The label-free mark deinterleave leaves in a cell it has read.
ReadMark == -1

IlvBump(w, cell) ==
  IF cell.B + 1 \in DOMAIN w /\ cell.j + 1 \in DOMAIN w[cell.B + 1]
    THEN [w EXCEPT ![cell.B + 1][cell.j + 1] = @ + 1]
    ELSE w

\* One turn of the loop of XCCHL1Encoder::interleave.
IlvXcchInterleaveStep ==
  /\ ilvPC = "interleave" /\ encKind = "XCCH"
  /\ mIenc' = xcchInterleaveLoop(mCenc, ilvK, ilvK, mIenc)
  /\ ilvWrites' = IlvBump(ilvWrites, xcchInterleaveCell(ilvK))
  /\ ilvK' = IF ilvK < 455 THEN ilvK + 1 ELSE 0
  /\ ilvPC' = IF ilvK < 455 THEN "interleave" ELSE "transmit"
  /\ UNCHANGED <<script, sentFrames, mUenc, mCenc, air, codecDecVars, codecTagVars,
                 tchVars, ilvBlock, pwrVars, queueVars, hsVars, moreVars>>
  /\ UNCHANGED <<clockVars, encVars, decBaseVars, decCountVars, sacchVars>>

\* One turn of the loop of TCHFACCHL1Encoder::interleave; after the last turn
\* of the first block mOffset changes over and the second block is in c[].
IlvTchInterleaveStep ==
  /\ ilvPC = "interleave" /\ encKind = "TCHFACCH"
  /\ mIenc' = tchInterleaveLoop(mCenc, mOffset, ilvK, ilvK, mIenc)
  /\ ilvWrites' = IlvBump(ilvWrites, tchInterleaveCell(ilvK, mOffset))
  /\ ilvK' = IF ilvK < 455 THEN ilvK + 1 ELSE 0
  /\ IF ilvK < 455
       THEN UNCHANGED <<ilvPC, ilvBlock, mOffset, mCenc>>
       ELSE /\ mOffset' = nextOffset(mOffset)
            /\ ilvBlock' = ilvBlock + 1
            /\ mCenc' = IF ilvBlock < 2 THEN LabelBlock(ilvBlock + 1) ELSE mCenc
            /\ ilvPC' = IF ilvBlock < 2 THEN "interleave" ELSE "done"
  /\ UNCHANGED <<script, sentFrames, mUenc, air, codecDecVars, codecTagVars,
                 mPreviousFACCH, blocks, pwrVars, queueVars, hsVars, moreVars>>
  /\ UNCHANGED <<clockVars, encVars, decBaseVars, decCountVars, sacchVars>>

\* The four bursts carry the rows of i[][] to the decoder.
IlvTransmit ==
  /\ ilvPC = "transmit"
  /\ mIdec' = mIenc
  /\ ilvPC' = "deinterleave"
  /\ UNCHANGED <<codecEncVars, air, mCdec, mUdec, mReadTime, upFrames, codecTagVars,
                 tchVars, ilvK, ilvBlock, ilvWrites, pwrVars, queueVars, hsVars, moreVars>>
  /\ UNCHANGED <<clockVars, encVars, decBaseVars, decCountVars, sacchVars>>

\* One turn of the loop of XCCHL1Decoder::deinterleave.
IlvXcchDeinterleaveStep ==
  /\ ilvPC = "deinterleave" /\ encKind = "XCCH"
  /\ LET acc == xcchDeinterleaveLoop(ilvK, ilvK, <<mCdec, mIdec>>, ReadMark) IN
       /\ mCdec' = acc[1]
       /\ mIdec' = acc[2]
  /\ ilvK' = IF ilvK < 455 THEN ilvK + 1 ELSE 456
  /\ ilvPC' = IF ilvK < 455 THEN "deinterleave" ELSE "done"
  /\ UNCHANGED <<codecEncVars, air, mUdec, mReadTime, upFrames, codecTagVars,
                 tchVars, ilvBlock, ilvWrites, pwrVars, queueVars, hsVars, moreVars>>
  /\ UNCHANGED <<clockVars, encVars, decBaseVars, decCountVars, sacchVars>>
----------------------------------------------------------------------------
(* XCCHL1Encoder::writeHighSide, switched by the primitive of the frame.    *)
(* The call runs on the thread of Layer 2; its sibling is the decoder of    *)
(* the same logical channel.                                                *)

Primitives == {"DATA", "ESTABLISH", "RELEASE", "ERROR"}

\* What writeHighSide does to the sibling once the encoder's own open() or
\* close() has returned, were ERROR to close both sides as RELEASE does.
siblingCallCloseOnError(p) ==
  CASE p = "ESTABLISH" -> "open"
    [] p = "RELEASE" -> "close"
    [] p = "ERROR" -> "close"
    [] OTHER -> "none"

\* if (sibling()) sibling()->open(); under ESTABLISH,
\* if (sibling()) sibling()->close(); under RELEASE, nothing else.
siblingCall(p) ==
  CASE p = "ESTABLISH" -> "open"
    [] p = "RELEASE" -> "close"
    [] OTHER -> "none"

\* case DATA: resync(); sendFrame(frame); up to the waitToSend of transmit.
HsData ==
  /\ hsPC = "idle"
  /\ xcchWriteData
  /\ primitive' = "DATA"
  /\ hsPC' = "busy"

\* case ESTABLISH: open();
HsEstablish ==
  /\ hsPC = "idle"
  /\ L1EncoderOpen
  /\ primitive' = "ESTABLISH"
  /\ hsPC' = "busy"
  /\ UNCHANGED <<clockVars, decBaseVars, decCountVars, sacchVars>>
  /\ UNCHANGED <<codecEncVars, air, codecDecVars, codecTagVars, tchVars, ilvVars,
                 pwrVars, queueVars, moreVars>>

\* case RELEASE: and case ERROR: close(); up to the first burst of
\* sendIdleFill.
HsClose ==
  /\ hsPC = "idle"
  /\ L1EncoderClose
  /\ primitive' \in {"RELEASE", "ERROR"}
  /\ hsPC' = "busy"
  /\ UNCHANGED <<clockVars, decBaseVars, decCountVars, sacchVars>>
  /\ UNCHANGED <<codecEncVars, air, codecDecVars, codecTagVars, tchVars, ilvVars,
                 pwrVars, queueVars, moreVars>>

\* One burst of sendIdleFill under close().
HsIdleFillBurst ==
  /\ ctlOp = "close"
  /\ CtlWriteBurst

\* The encoder's own part has returned: the call on the sibling, if the
\* primitive has one, and the return of writeHighSide.
HsReturn ==
  /\ hsPC = "busy"
  /\ ctlPC = "idle"
  /\ hsPC' = "idle"
  /\ primitive' = primitive
  /\ CASE siblingCall(primitive) = "open" -> L1DecoderOpen
       [] siblingCall(primitive) = "close" -> L1DecoderClose
       [] OTHER -> UNCHANGED <<decBaseVars, decCountVars>>
  /\ UNCHANGED <<clockVars, encVars, sacchVars>>
  /\ UNCHANGED <<codecEncVars, air, codecDecVars, codecTagVars, tchVars, ilvVars,
                 pwrVars, queueVars, moreVars>>
----------------------------------------------------------------------------
(* A burst the demultiplexer hands to a decoder although its frame number   *)
(* is not in the decoder's mapping, and what assert does in this build.     *)

\* Stray bursts an active decoder takes in a run.
MaxStrays == 3

\* #define NDEBUG ahead of #include <assert.h>: assert(e) expands to nothing.
NDEBUG == TRUE

\* a % n of C++ on ints: the remainder takes the sign of a.
CRem(a, n) == IF a >= 0 THEN a % n ELSE 0 - ((0 - a) % n)

\* int B = mMapping.reverseMapping(inBurst.time().FN()) % 4; (% 8 for TCH/FACCH)
burstIndex(kind, fn) ==
  CRem(reverseMapping(kind, fn), IF kind = "TCHFACCH" THEN 8 ELSE 4)

\* Frame numbers the demultiplexer may hand over by mistake: the frames of the
\* first multiframes that are not in the mapping of the channel.
StrayFNs(kind) == {fn \in 0..60 : reverseMapping(kind, fn) = -1}

\* What a write through mI[B] with B < 0 may do: the memory in front of the
\* rows is written, or the write faults.
OutOfBoundsOutcomes == {"running", "crashed"}

\* XCCHL1Decoder::writeLowSide / TCHFACCHL1Decoder::writeLowSide and
\* processBurst for a burst of a frame outside the mapping.  A decoder that
\* is not active ignores it.  processBurst takes the measurements, computes
\* B, passes assert(B>=0) when NDEBUG is defined, and copies the data fields
\* to mI[B].
DemuxStrayBurst ==
  /\ process = "running"
  /\ strays < MaxStrays
  /\ \E fn \in StrayFNs(encKind) :
       LET B == burstIndex(encKind, fn) IN
       IF ~activeDec
         THEN UNCHANGED <<phyVars, process, oobIndexed, strays>>
         ELSE /\ processBurstPhy(FALSE)
              /\ strays' = strays + 1
              /\ IF B < 0 /\ ~NDEBUG
                   THEN /\ process' = "aborted"
                        /\ oobIndexed' = oobIndexed
                   ELSE IF B < 0
                     THEN /\ process' \in OutOfBoundsOutcomes
                          /\ oobIndexed' = TRUE
                     ELSE UNCHANGED <<process, oobIndexed>>
  /\ UNCHANGED <<clockVars, encVars, decBaseVars, decCountVars>>
  /\ UNCHANGED <<band, cfg, sacchEncVars, sacchDecVars, rxB, rxBursts>>
  /\ UNCHANGED <<codecEncVars, air, codecDecVars, codecTagVars, tchVars, ilvVars,
                 pwrVars, queueVars, hsVars, rachVars, lowVars, inspVars, radioVars>>
----------------------------------------------------------------------------
(* The RACH decoder, GSM 05.03 4.6: one access burst carries eight data    *)
(* bits, six parity bits XORed with the BSIC and four tail bits.           *)

MaxRach == 3

\* The low n bits of x >= 0, high bit first.
Bits(x, n) ==
  Vec([i \in 1..n |-> IF n - i > 30 THEN 0 ELSE (x \div Pow(2, n - i)) % 2])

\* BitVector::peekField(readIndex, length): the field read high bit first.
peekField(v, readIndex, length) ==
  LET bits == Vec(v)
      acc[k \in 0..length] ==
        IF k = 0 THEN 0 ELSE 2 * acc[k - 1] + bits[readIndex + k]
  IN acc[length]

\* The RACH generator 0x06f = D^6 + D^5 + D^3 + D^2 + D + 1.
RachParitySize == 6
RachTaps == {6 - 5, 6 - 3, 6 - 2, 6 - 1, 6}

\* mD.parity(mParity): the state of the generator after the data bits.
rachParity(d) ==
  peekField(parityShifts(RachTaps, d, 1, Len(d), Zeros(RachParitySize)), 0,
            RachParitySize)

\* The operators of unsigned int.
UnsignedBits == 32
BitNot(a) == Vec([i \in 1..UnsignedBits |-> 1 - a[i]])
BitXor(a, b) == Vec([i \in 1..UnsignedBits |-> Xor(a[i], b[i])])
BitAnd(a, b) == Vec([i \in 1..UnsignedBits |-> a[i] * b[i]])
Unsigned(x) == Bits(x, UnsignedBits)

\* The check with the sent parity taken as it is.
rachEncodedBSICPlain(u) ==
  LET sentParity == Unsigned(peekField(u, 8, 6))
      checkParity == Unsigned(rachParity(SubSeq(u, 1, 8)))
  IN peekField(BitAnd(BitXor(sentParity, checkParity), Unsigned(63)), 0, UnsignedBits)

\* sentParity = ~mU.peekField(8,6); checkParity = mD.parity(mParity);
\* encodedBSIC = (sentParity ^ checkParity) & 0x03f.
rachEncodedBSIC(u) ==
  LET sentParity == BitNot(Unsigned(peekField(u, 8, 6)))
      checkParity == Unsigned(rachParity(SubSeq(u, 1, 8)))
  IN peekField(BitAnd(BitXor(sentParity, checkParity), Unsigned(63)), 0, UnsignedBits)

\* A timing error is held in quarters of a symbol; (int) cuts towards zero.
QuarterSymbol == 4
CastInt(q) == IF q >= 0 THEN q \div QuarterSymbol ELSE 0 - ((0 - q) \div QuarterSymbol)

\* initialTA = (int)(burst.timingError() + 0.5F), held within 0..63.
initialTA(timingError) ==
  LET ta == CastInt(timingError + QuarterSymbol \div 2)
  IN IF ta < 0 THEN 0 ELSE IF ta > 63 THEN 63 ELSE ta

\* The handset: the access burst of GSM 05.03 4.6 for the request ra towards
\* a cell of colour code bsic, and the ways it comes out damaged.
Damages == {"none", "noise", "parity", "tail"}
accessU(ra, bsic, damage) ==
  LET d == LSB8MSB(Bits(ra, 8))
      p == Bits(rachParity(d), RachParitySize)
      sent == Vec([i \in 1..RachParitySize |->
                     Xor(Xor(1 - p[i], Bits(bsic, RachParitySize)[i]),
                         IF damage = "parity" /\ i = 4 THEN 1 ELSE 0)])
      tail == IF damage = "tail" THEN <<0, 1, 0, 0>> ELSE <<0, 0, 0, 0>>
  IN d \o sent \o tail
accessBurst(ra, bsic, damage) ==
  LET e == Loopback(ConvEncode(accessU(ra, bsic, damage)))
  IN Vec([n \in 1..148 |->
            IF n \in 50..85
              THEN IF damage = "noise" /\ n = 60 THEN 2 - e[n - 49] ELSE e[n - 49]
              ELSE Neutral])

\* The access bursts the radio may deliver.
RachCases ==
  {[ra |-> 90, bsic |-> 42, damage |-> "none", timingError |-> 2],
   [ra |-> 90, bsic |-> 42, damage |-> "noise", timingError |-> -7],
   [ra |-> 90, bsic |-> 42, damage |-> "parity", timingError |-> 9],
   [ra |-> 90, bsic |-> 42, damage |-> "tail", timingError |-> 9],
   [ra |-> 3, bsic |-> 42, damage |-> "none", timingError |-> 300],
   [ra |-> 3, bsic |-> 21, damage |-> "none", timingError |-> 9],
   [ra |-> 255, bsic |-> 21, damage |-> "noise", timingError |-> 253]}

rachRest ==
  <<clockVars, encVars, decBaseVars, sacchVars, codecEncVars, air,
    codecDecVars, codecTagVars, tchVars, ilvVars, pwrVars, queueVars, hsVars,
    faultVars, lowVars, inspVars, radioVars>>

\* The radio queues an access burst on mQ; decOps counts open() and the
\* bursts the decoder has taken.
RachArrive ==
  /\ Len(rachIn) + decOps < MaxRach
  /\ \E c \in RachCases :
       rachIn' = Append(rachIn,
                        [bits |-> accessBurst(c.ra, c.bsic, c.damage),
                         time |-> MkTime(clockFN + Len(rachIn), 0),
                         RSSI |-> 0 - (40 + (c.ra % 7)),
                         timingError |-> c.timingError])
  /\ UNCHANGED <<rachUp, mUrach, BSIC, decCountVars, rachRest>>

\* RACHL1Decoder::serviceLoop: mQ.read(), then RACHL1Decoder::writeLowSide.
RachWriteLowSide ==
  /\ mActiveDec
  /\ rachIn # <<>>
  /\ \E burst \in {Head(rachIn)} : \E u \in {Viterbi(SubSeq(burst.bits, 50, 85))} :
        /\ rachIn' = Tail(rachIn)
        /\ decOps' = decOps + 1
        /\ IF peekField(u, 14, 4) # 0
             THEN /\ mFER' = countBadFrame(mFER)
                  /\ mUrach' = u
                  /\ UNCHANGED rachUp
             ELSE IF rachEncodedBSIC(u) # BSIC
               THEN /\ mFER' = countBadFrame(mFER)
                    /\ mUrach' = u
                    /\ UNCHANGED rachUp
               ELSE LET d == LSB8MSB(SubSeq(u, 1, 8)) IN
                    /\ mFER' = countGoodFrame(mFER)
                    /\ mUrach' = d \o SubSeq(u, 9, 18)
                    /\ rachUp' = Append(rachUp,
                                        [RA |-> peekField(d, 0, 8),
                                         time |-> burst.time,
                                         RSSI |-> burst.RSSI,
                                         TA |-> initialTA(burst.timingError),
                                         FER |-> countGoodFrame(mFER)])
  /\ UNCHANGED <<BSIC, rachRest>>
----------------------------------------------------------------------------
(* writeLowSide taken in two steps, so that close() and the timers move    *)
(* between the test of active() and the processing of the burst.           *)

lowRest ==
  <<clockVars, encVars, sacchVars, codecEncVars, codecDecVars, codecTagVars,
    tchVars, ilvVars, pwrVars, queueVars, hsVars, faultVars, rachVars, inspVars, radioVars,
    decBaseVars, decCountVars>>

\* XCCHL1Decoder::writeLowSide and TCHFACCHL1Decoder::writeLowSide up to
\* if (!active()) return.
LowSideEnter ==
  /\ lowPC = "idle"
  /\ air # <<>>
  /\ air' = Tail(air)
  /\ lowBurst' = Head(air)
  /\ lowPC' = IF activeDec THEN "process" ELSE "idle"
  /\ UNCHANGED lowRest

\* The rest of writeLowSide: processBurst and, on the last burst of a block,
\* deinterleave and decode.
LowSideProcess ==
  /\ lowPC = "process"
  /\ IF encKind = "TCHFACCH"
       THEN tchLowSide(lowBurst, TRUE)
       ELSE xcchLowSide(lowBurst, TRUE)
  /\ lowPC' = "idle"
  /\ UNCHANGED <<air, lowBurst, faultVars, rachVars, inspVars, radioVars>>
----------------------------------------------------------------------------
(* The encoders with no radio bound: mDownstream is NULL.                  *)

\* A call through the NULL pointer: the process dies of it, or the call comes
\* back having sent nothing.
NullCallOutcomes == {"crashed", "running"}

\* XCCHL1Encoder::writeHighSide(DATA) with no radio: resync, and sendFrame
\* returns at its first test.
NoRadioWriteHighSideData ==
  /\ ~mDownstream
  /\ encKind \in {"XCCH", "SACCH"}
  /\ ctlPC = "idle" /\ opsDone < MaxOps
  /\ opsDone' = opsDone + 1
  /\ mNextWriteTime' = resync(mNextWriteTime, mTotalBursts)
  /\ UNCHANGED <<encKind, mTotalBursts, mPrevWriteTime, mActiveEnc, mRunningEnc,
                 ctlPC, ctlI, ctlN, ctlStamp, ctlOp, svcPC, svcI, svcStamp,
                 txSeen, txPrev, txLast>>
  /\ UNCHANGED <<clockVars, decBaseVars, encRest>>

\* SCHL1Encoder::writeHighSide has no such test: resync, then waitToSend.
NoRadioSchWriteHighSide ==
  /\ ~mDownstream
  /\ encKind = "SCH"
  /\ EncWriteHighSideData

\* mDownstream->writeHighSide(burst); rollForward() on the calling thread, in
\* sendIdleFill and in SCHL1Encoder::writeHighSide.
NoRadioCtlWriteBurst ==
  /\ ~mDownstream
  /\ ctlPC = "write"
  /\ \E outcome \in NullCallOutcomes :
       /\ process' = outcome
       /\ IF outcome = "crashed"
            THEN /\ ctlPC' = "crashed" /\ svcPC' = "crashed"
                 /\ UNCHANGED <<mPrevWriteTime, mTotalBursts, mNextWriteTime, ctlI,
                                ctlOp, ctlStamp>>
            ELSE /\ ctlStamp' = mNextWriteTime
                 /\ LET r == rollForward(mNextWriteTime, mTotalBursts) IN
                      /\ mPrevWriteTime' = r.prev
                      /\ mTotalBursts' = r.total
                      /\ mNextWriteTime' = r.next
                 /\ ctlI' = ctlI + 1
                 /\ ctlPC' = IF ctlI + 1 < ctlN THEN "write" ELSE "idle"
                 /\ ctlOp' = IF ctlI + 1 < ctlN THEN ctlOp ELSE "none"
                 /\ svcPC' = svcPC
  /\ UNCHANGED <<encKind, mActiveEnc, mRunningEnc, ctlN, opsDone, svcI, svcStamp,
                 txSeen, txPrev, txLast>>
  /\ UNCHANGED <<clockVars, decBaseVars, decCountVars, sacchVars, codecEncVars, air,
                 codecDecVars, codecTagVars, tchVars, ilvVars, pwrVars, queueVars,
                 hsVars, oobIndexed, strays, rachVars, lowVars, radioVars, inspVars>>

\* The same call on the encoder's own thread, in FCCHL1Encoder::generate and
\* in the burst loop of TCHFACCHL1Encoder::dispatch.
NoRadioSvcWriteBurst ==
  /\ ~mDownstream
  /\ svcPC = "write"
  /\ \E outcome \in NullCallOutcomes :
       /\ process' = outcome
       /\ IF outcome = "crashed"
            THEN /\ ctlPC' = "crashed" /\ svcPC' = "crashed"
                 /\ UNCHANGED <<mPrevWriteTime, mTotalBursts, mNextWriteTime, svcI>>
            ELSE /\ LET r == rollForward(mNextWriteTime, mTotalBursts) IN
                      /\ mPrevWriteTime' = r.prev
                      /\ mTotalBursts' = r.total
                      /\ mNextWriteTime' = r.next
                 /\ svcI' = IF svcI < 3 THEN svcI + 1 ELSE 0
                 /\ svcPC' = IF svcI < 3 THEN "stamp" ELSE "top"
                 /\ ctlPC' = ctlPC
  /\ UNCHANGED <<encKind, mActiveEnc, mRunningEnc, ctlI, ctlN, ctlStamp, ctlOp,
                 opsDone, svcStamp, txSeen, txPrev, txLast>>
  /\ UNCHANGED <<clockVars, decBaseVars, decCountVars, sacchVars, codecEncVars, air,
                 codecDecVars, codecTagVars, tchVars, ilvVars, pwrVars, queueVars,
                 hsVars, oobIndexed, strays, rachVars, lowVars, radioVars, inspVars>>
----------------------------------------------------------------------------
(* processBurst taken one assignment at a time, and the public inspectors  *)
(* of the decoder called from another thread meanwhile.                    *)

MaxInspect == 2

\* Everything but the measurements, the call under way and the inspector.
inspRest ==
  <<clockVars, encVars, band, cfg, sacchEncVars, sacchDecVars, rxB, rxBursts,
    codecEncVars, air, codecDecVars, codecTagVars, tchVars, ilvVars, pwrVars,
    queueVars, hsVars, faultVars, rachVars, radioVars, decBaseVars, decCountVars>>

\* processBurst: mRSSI[mRSSICounter] = inBurst.RSSI().  No lock is held.
PhyWriteRSSI ==
  /\ lowPC = "process"
  /\ mRSSI' = [mRSSI EXCEPT ![mRSSICounter + 1] = LoopRSSI]
  /\ lowPC' = "rssi"
  /\ UNCHANGED <<mTimingError, mRSSICounter, mPhyNew, lowBurst, inspVars, inspRest>>

\* processBurst: mTimingError[mRSSICounter] = inBurst.timingError().
PhyWriteTimingError ==
  /\ lowPC = "rssi"
  /\ mTimingError' = [mTimingError EXCEPT ![mRSSICounter + 1] = LoopTimingError]
  /\ lowPC' = "timing"
  /\ UNCHANGED <<mRSSI, mRSSICounter, mPhyNew, lowBurst, inspVars, inspRest>>

\* processBurst from mPhyNew = true on, and the rest of writeLowSide.
PhyFinish ==
  /\ lowPC = "timing"
  /\ IF encKind = "TCHFACCH" THEN tchLowSide(lowBurst, TRUE)
                             ELSE xcchLowSide(lowBurst, TRUE)
  /\ lowPC' = "idle"
  /\ UNCHANGED <<air, lowBurst, faultVars, rachVars, radioVars, inspVars>>

\* What an inspector does: hand a value to its caller, and the value it
\* leaves in mPhyNew.
inspect(what, value, phyNew) ==
  /\ insCalls' = insCalls + 1
  /\ insSeen' = [what |-> what, value |-> value]
  /\ mPhyNew' = phyNew
  /\ UNCHANGED <<mRSSI, mTimingError, mRSSICounter, lowVars, inspRest>>

\* XCCHL1Decoder::RSSI: no lock; mPhyNew = false.
InspectRSSI ==
  /\ insCalls < MaxInspect
  /\ inspect("RSSI", Mean4(mRSSI), FALSE)

\* XCCHL1Decoder::timingError: no lock; mPhyNew = false.
InspectTimingError ==
  /\ insCalls < MaxInspect
  /\ inspect("timingError", Mean4(mTimingError), FALSE)

\* L1Decoder::active, under mLock.
InspectActive ==
  /\ insCalls < MaxInspect
  /\ inspect("active", IF activeDec THEN 1 ELSE 0, mPhyNew)

\* L1Decoder::recyclable, under mLock.
InspectRecyclable ==
  /\ insCalls < MaxInspect
  /\ inspect("recyclable", IF recyclable THEN 1 ELSE 0, mPhyNew)

\* TCHFACCHL1Decoder::uplinkLost, under mLock.
InspectUplinkLost ==
  /\ insCalls < MaxInspect
  /\ encKind = "TCHFACCH"
  /\ inspect("uplinkLost", IF TimerExpired(mT3109) THEN 1 ELSE 0, mPhyNew)
----------------------------------------------------------------------------
(* The encoder under every interleaving of its public calls, its own       *)
(* thread and the clock.                                                   *)

NoTime == MkTime(0, 0)

\* The clock at frame fn.
InitClock(fn) == clockFN = fn /\ ticks = 0

\* L1Encoder::L1Encoder for an encoder of the given class.
InitEncoder(kind) ==
  /\ encKind = kind
  /\ mTotalBursts = 0
  /\ mPrevWriteTime = ConstructedTime(kind, clockFN)
  /\ mNextWriteTime = ConstructedTime(kind, clockFN)
  /\ mActiveEnc = FALSE
  /\ mRunningEnc = FALSE
  /\ ctlPC = "idle" /\ ctlI = 0 /\ ctlN = 0 /\ ctlStamp = NoTime /\ ctlOp = "none"
  /\ opsDone = 0
  /\ svcPC = "none" /\ svcI = 0 /\ svcStamp = NoTime
  /\ txSeen = 0 /\ txPrev = NoTime /\ txLast = NoTime

\* L1Decoder::L1Decoder
InitDecBase ==
  /\ mActiveDec = FALSE
  /\ mT3101 = TimerIdle
  /\ mT3109 = TimerIdle
  /\ mT3111 = TimerIdle
  /\ mFER = FERZero
  /\ decOps = 0

\* SACCHL1Encoder::SACCHL1Encoder and XCCHL1Decoder::XCCHL1Decoder, under
\* band b and configuration c.
InitSacch(b, c) ==
  /\ band = b
  /\ cfg = c
  /\ mOrderedMSPower = InitialMSPower * Scale
  /\ mOrderedMSTiming = 0
  /\ phyHeader = [power |-> 0, timing |-> 0]
  /\ mActualMSPower = InitialMSPower
  /\ mActualMSTiming = 0
  /\ mRSSI = <<0, 0, 0, 0>>
  /\ mTimingError = <<0, 0, 0, 0>>
  /\ mRSSICounter = 0
  /\ mPhyNew = FALSE
  /\ rxB = 0
  /\ rxBursts = 0

\* TCHFACCHL1Encoder::TCHFACCHL1Encoder: mPreviousFACCH(false), mOffset(0).
InitTchIdle == mOffset = 0 /\ mPreviousFACCH = FALSE /\ blocks = <<>>

\* The queues of a TCH/FACCH encoder just constructed.
InitQueuesIdle ==
  mSpeechQ = <<>> /\ mL2Q = <<>> /\ currentFACCH = FALSE /\ dispatched = <<>>

\* No writeHighSide call was made.
InitHsIdle == primitive = "none" /\ hsPC = "idle"

\* The process runs.
InitFaultIdle == process = "running" /\ oobIndexed = FALSE /\ strays = 0

\* The receive thread is outside writeLowSide.
InitLowIdle == lowPC = "idle" /\ lowBurst = <<>>

\* The channel is wired: a radio on C0 below, layer 2 above.
InitRadioIdle == mDownstream = TRUE /\ onC0 = TRUE /\ mUpstream = TRUE

\* No burst was handed to a RACH decoder.
InitRachIdle == rachIn = <<>> /\ rachUp = <<>> /\ mUrach = <<>> /\ BSIC = 0

\* No inspector was called.
InitInspIdle == insSeen = [what |-> "none", value |-> 0] /\ insCalls = 0

InitMoreIdle ==
  /\ InitFaultIdle
  /\ InitInspIdle
  /\ InitRadioIdle
  /\ InitLowIdle
  /\ InitRachIdle

\* No walk through the interleave loops.
InitIlvIdle == ilvPC = "none" /\ ilvK = 0 /\ ilvBlock = 0 /\ ilvWrites = <<>>

\* No call of the power control functions.
InitPwrIdle == pwrCode = -1 /\ pwrDBm = 0 /\ pwrOut = -1

\* The codec buffers where no frame is followed.
InitCodecBuffersIdle ==
  /\ script = <<>> /\ sentFrames = 0
  /\ mUenc = <<>> /\ mCenc = <<>> /\ mIenc = <<>>
  /\ air = <<>>
  /\ mIdec = <<>> /\ mCdec = <<>> /\ mUdec = <<>>
  /\ mReadTime = NoTime
  /\ upFrames = <<>>
  /\ mItag = <<>> /\ mCtag = <<>>
  /\ rxGot = <<>> /\ rxResult = <<>>
  /\ deintFrame = 0
  /\ InitTchIdle
  /\ InitIlvIdle
  /\ InitPwrIdle
  /\ InitQueuesIdle
  /\ InitHsIdle

InitCodecIdle == InitCodecBuffersIdle /\ InitMoreIdle

\* XCCHL1Encoder::XCCHL1Encoder and XCCHL1Decoder::XCCHL1Decoder: u[] and the
\* interleave buffers are zero-filled; s is what the upper layer will send.
InitXcchCodec(s) ==
  /\ script = s /\ sentFrames = 0
  /\ mUenc = Zeros(228) /\ mCenc = Zeros(456) /\ mIenc = Rows(4, 0)
  /\ air = <<>>
  /\ mIdec = Rows(4, 0) /\ mCdec = Zeros(456) /\ mUdec = Zeros(228)
  /\ mReadTime = NoTime
  /\ upFrames = <<>>
  /\ mItag = Rows(4, CtorTag) /\ mCtag = Zeros(456)
  /\ rxGot = [f \in 1..Len(s) |-> {}]
  /\ rxResult = [f \in 1..Len(s) |-> "none"]
  /\ deintFrame = 0
  /\ InitTchIdle
  /\ InitIlvIdle
  /\ InitPwrIdle
  /\ InitQueuesIdle
  /\ InitHsIdle
  /\ InitMoreIdle

\* The configuration OpenBTS ships with.
DefaultConfig ==
  [RSSITarget |-> -50, maxPower |-> 33, minPower |-> 5, powerDamping |-> 50,
   maxTiming |-> 62, TADamping |-> 50, maxSpeechLatency |-> 2]

InitEnc ==
  /\ \E kind \in EncoderKinds :
       /\ encKind = kind
       /\ clockFN \in ClockStarts(kind)
       /\ ticks = 0
       /\ InitEncoder(kind)
  /\ InitDecBase
  /\ InitSacch("EGSM900", DefaultConfig)
  /\ InitCodecIdle

NextEnc ==
  \/ EncOpen
  \/ EncClose
  \/ EncResync
  \/ EncWriteHighSideData
  \/ CtlWaitToSend
  \/ CtlWriteBurst
  \/ GenLoop
  \/ GenGenerate
  \/ TCHRoutine
  \/ TCHDispatch
  \/ TCHInactiveWait
  \/ TCHWaitToSend
  \/ TCHStampBurst
  \/ SvcWriteBurst
  \/ ClockTick

SpecEnc == InitEnc /\ [][NextEnc]_vars

\* C1: the bursts one encoder hands to the radio carry strictly increasing
\* Times in the hyperframe ring.
C1_StrictlyIncreasingTimes == txSeen = 2 => TimeLess(txPrev, txLast)

\* C2: mNextWriteTime sits on the frame of the mapping that mTotalBursts
\* names, on the channel's timeslot.
C2_NextWriteTimeOnMapping ==
  /\ reverseMapping(encKind, mNextWriteTime.FN) = mTotalBursts % numFrames(encKind)
  /\ mNextWriteTime.TN = ChannelTN(encKind)

\* The frames of the channel's mapping after the clock's current frame, up
\* to and including frame fn: how many scheduled bursts fn is ahead.
ScheduledAhead(fn) ==
  Cardinality({d \in 1..FNDelta(fn, clockFN) :
                 reverseMapping(encKind, (clockFN + d) % Hyperframe) # -1})

\* C19: a burst handed to the radio is stamped at most one scheduled burst
\* ahead of the clock's current frame, whichever path emitted it.
C19_OneBurstAhead == txSeen > 0 => ScheduledAhead(txLast.FN) <= 1

----------------------------------------------------------------------------
(* The decoder life cycle.                                                 *)

InitDec ==
  /\ InitClock(0)
  /\ InitEncoder("XCCH")
  /\ InitDecBase
  /\ InitSacch("EGSM900", DefaultConfig)
  /\ InitCodecIdle

NextDec ==
  \/ DecOpen
  \/ DecClose
  \/ DecGoodFrame
  \/ DecBadFrame
  \/ DecTick

SpecDec == InitDec /\ [][NextDec]_vars

\* C3: recyclable() is true exactly when one of T3101, T3109, T3111 has
\* expired; active() is true exactly when the decoder is open and not
\* recyclable; so active() is false whenever one of the timers has expired.
C3_RecyclableAndActive ==
  LET anyExpired == \/ (mT3101.active /\ mT3101.left = 0)
                    \/ (mT3109.active /\ mT3109.left = 0)
                    \/ (mT3111.active /\ mT3111.left = 0)
  IN /\ recyclable <=> anyExpired
     /\ activeDec <=> (mActiveDec /\ ~anyExpired)
     /\ anyExpired => ~activeDec

\* An open decoder that took a good frame and then lost the uplink: T3109 ran out.
C3_Witness == mActiveDec /\ mFER.exp > 0 /\ TimerExpired(mT3109) /\ ~activeDec

----------------------------------------------------------------------------
(* The SACCH closed loop: the encoder's orders under every configuration   *)
(* and every sequence of uplink measurements.                              *)

SacchConfigs ==
  {[RSSITarget |-> -40, maxPower |-> maxP, minPower |-> 5, powerDamping |-> damping,
    maxTiming |-> 62, TADamping |-> damping, maxSpeechLatency |-> 2] :
     maxP \in {30, 33}, damping \in {50}}

InitSACCH ==
  /\ InitClock(42)
  /\ InitEncoder("SACCH")
  /\ InitDecBase
  /\ \E c \in SacchConfigs : InitSacch("EGSM900", c)
  /\ InitCodecIdle

NextSACCH ==
  \/ SacchEncOpen
  \/ SacchDecOpen
  \/ SacchSetPhy
  \/ SacchSetPhyOther
  \/ SacchSendFrame
  \/ SacchWriteLowSide
  \/ CtlWaitToSend
  \/ CtlWriteBurst
  \/ ClockTick

SpecSACCH == InitSACCH /\ [][NextSACCH]_vars

\* C4: the ordered power stays within the configured limits and the ordered
\* timing advance within 0 and the configured maximum.
C4_OrdersWithinLimits ==
  /\ cfg.minPower * Scale <= mOrderedMSPower
  /\ mOrderedMSPower <= cfg.maxPower * Scale
  /\ 0 <= mOrderedMSTiming
  /\ mOrderedMSTiming <= cfg.maxTiming * Scale

----------------------------------------------------------------------------
(* The XCCH encoder looped back into the XCCH decoder over a radio that    *)
(* delivers every burst as sent.                                           *)

XcchScripts == {<<a, b>> : a \in 0..5, b \in {0, 4}}

\* L1Decoder::open on a decoder just constructed.
InitDecOpened ==
  /\ mActiveDec = TRUE
  /\ mT3101 = TimerSet(T3101Limit)
  /\ mT3109 = TimerIdle
  /\ mT3111 = TimerIdle
  /\ mFER = FERZero
  /\ decOps = 1

InitXCCH ==
  /\ InitClock(2)
  /\ InitEncoder("XCCH")
  /\ InitDecOpened
  /\ InitSacch("EGSM900", DefaultConfig)
  /\ \E s \in XcchScripts : InitXcchCodec(s)

NextXCCH ==
  \/ XcchWriteHighSideData
  \/ CtlWaitToSend
  \/ XcchTransmitBurst
  \/ XcchWriteLowSide
  \/ ClockWake

SpecXCCH == InitXCCH /\ [][NextXCCH]_vars

\* C5: a frame whose four bursts all went into an open decoder, as sent and
\* in order, is counted good and comes out upstream once, with the payload
\* that went in.
C5_LoopbackIsIdentity ==
  \A f \in 1..Len(script) :
    (rxGot[f] = {0, 1, 2, 3} /\ rxResult[f] # "none") =>
      /\ rxResult[f] = "good"
      /\ Cardinality({n \in 1..Len(upFrames) : upFrames[n].frame = f}) = 1
      /\ \A n \in 1..Len(upFrames) :
           upFrames[n].frame = f => upFrames[n].bits = Payload(script[f])

\* Both frames of a run went through the loop.
C5_Witness ==
  /\ Len(script) = 2 /\ script[1] = 0
  /\ rxGot[1] = {0, 1, 2, 3} /\ rxGot[2] = {0, 1, 2, 3}
  /\ Len(upFrames) = 2
  /\ upFrames[1].bits = Payload(0)

\* The same loop over a radio that drops bursts.
LossyScripts == {<<0, 4>>, <<3, 3>>}

InitXCCHLossy ==
  /\ InitClock(2)
  /\ InitEncoder("XCCH")
  /\ InitDecOpened
  /\ InitSacch("EGSM900", DefaultConfig)
  /\ \E s \in LossyScripts : InitXcchCodec(s)

NextXCCHLossy ==
  \/ XcchWriteHighSideData
  \/ CtlWaitToSend
  \/ XcchTransmitBurst
  \/ XcchLoseBurst
  \/ XcchWriteLowSide
  \/ ClockWake

SpecXCCHLossy == InitXCCHLossy /\ [][NextXCCHLossy]_vars

\* C7: when the decoder has deinterleaved a frame, every soft value it read
\* from the row of a burst of that frame that was not delivered is the neutral
\* 0.5.
C7_MissingBurstReadsNeutral ==
  deintFrame # 0 =>
    \A k \in 0..455 :
      xcchDeinterleaveCell(k).B \notin rxGot[deintFrame] => mCdec[k + 1] = Neutral

\* C8: a frame whose burst B = 3 was not delivered does not go upstream, and
\* none of the soft values received for it is read when the next frame is
\* deinterleaved.
C8_LostFrameNeverContaminates ==
  /\ \A n \in 1..Len(upFrames) : 3 \in rxGot[upFrames[n].frame]
  /\ (deintFrame > 1 /\ 3 \notin rxGot[deintFrame - 1]) =>
       \A k \in 0..455 : mCtag[k + 1] # deintFrame - 1

----------------------------------------------------------------------------
(* The interleaver maps, walked cell by cell.                              *)

\* A block of labels in c[] and nothing written yet; a TCH/FACCH encoder
\* starts at either block offset.
InitIlv ==
  /\ InitClock(0)
  /\ \E kind \in {"XCCH", "TCHFACCH"} :
       /\ InitEncoder(kind)
       /\ mIenc = Rows(IF kind = "XCCH" THEN 4 ELSE 8, 0)
       /\ mIdec = Rows(IF kind = "XCCH" THEN 4 ELSE 8, 0)
       /\ ilvWrites = Rows(IF kind = "XCCH" THEN 4 ELSE 8, 0)
       /\ mOffset \in (IF kind = "XCCH" THEN {0} ELSE {0, 4})
  /\ InitDecBase
  /\ InitSacch("EGSM900", DefaultConfig)
  /\ script = <<>> /\ sentFrames = 0
  /\ mUenc = <<>> /\ mCenc = LabelBlock(1)
  /\ air = <<>>
  /\ mCdec = Zeros(456) /\ mUdec = <<>>
  /\ mReadTime = NoTime
  /\ upFrames = <<>>
  /\ mItag = <<>> /\ mCtag = <<>>
  /\ rxGot = <<>> /\ rxResult = <<>>
  /\ deintFrame = 0
  /\ mPreviousFACCH = FALSE /\ blocks = <<>>
  /\ ilvPC = "interleave" /\ ilvK = 0 /\ ilvBlock = 1
  /\ InitPwrIdle
  /\ InitQueuesIdle
  /\ InitHsIdle
  /\ InitMoreIdle

NextIlv ==
  \/ IlvXcchInterleaveStep
  \/ IlvTchInterleaveStep
  \/ IlvTransmit
  \/ IlvXcchDeinterleaveStep

SpecIlv == InitIlv /\ [][NextIlv]_vars

\* The cells of four or eight rows of 114.
IlvCells(rows) == {<<B, j>> : B \in 0..(rows - 1), j \in 0..113}
IlvCount(c) == ilvWrites[c[1] + 1][c[2] + 1]

\* C9: over k in [0, 456) the XCCH interleaver writes no cell of the four rows
\* twice and leaves none unwritten, every cell it names lies in the four rows
\* of 114, and deinterleave reads for each k the cell interleave wrote c[k] to.
C9_XcchInterleaverBijection ==
  encKind = "XCCH" =>
    /\ \A c \in IlvCells(4) : IlvCount(c) <= 1
    /\ ilvPC = "interleave" =>
         \A k \in 0..455 :
           LET cell == xcchInterleaveCell(k) IN
             /\ <<cell.B, cell.j>> \in IlvCells(4)
             /\ (k < ilvK) = (IlvCount(<<cell.B, cell.j>>) = 1)
             /\ k < ilvK => mIenc[cell.B + 1][cell.j + 1] = Label(1, k)
    /\ ilvPC \in {"transmit", "deinterleave", "done"} =>
         \A c \in IlvCells(4) : IlvCount(c) = 1
    /\ ilvPC \in {"deinterleave", "done"} =>
         \A k \in 0..455 : k < ilvK => mCdec[k + 1] = mCenc[k + 1]

\* The whole block went through interleave and deinterleave.
C9_Witness ==
  /\ encKind = "XCCH" /\ ilvPC = "done" /\ ilvK = 456
  /\ mCdec = LabelBlock(1)

\* The cells interleave writes at a block offset: in row B the places j of
\* one parity.
InTchImage(c, blockOffset) ==
  /\ c[1] \in 0..7 /\ c[2] \in 0..113
  /\ c[2] % 2 = ((c[1] + 8 - blockOffset) % 8) \div 4
TchImage(blockOffset) == {c \in IlvCells(8) : InTchImage(c, blockOffset)}

\* The offset the first block of the walk was interleaved at.
IlvFirstOffset == IF ilvBlock % 2 = 1 THEN mOffset ELSE nextOffset(mOffset)

\* C10 as stated: the cells written for one block at one block offset are all
\* of the eight rows of 114.
C10_ImageIsAllCells ==
  (encKind = "TCHFACCH" /\ ilvBlock = 2 /\ ilvK = 0) =>
    {c \in IlvCells(8) : IlvCount(c) >= 1} = IlvCells(8)

\* C10: at either block offset the TCH/FACCH interleaver writes 456 cells of
\* the eight rows, none twice: in row B the 57 places j whose parity is
\* ((B - blockOffset) mod 8) div 4.  The cells of the two offsets do not meet,
\* and two blocks in a row, one at each offset, write every cell of the eight
\* rows once.
C10_TchInterleaverHalves ==
  encKind = "TCHFACCH" =>
    /\ \A c \in IlvCells(8) : IlvCount(c) <= 1
    /\ ilvPC = "interleave" =>
         LET cell == tchInterleaveCell(ilvK, mOffset)
         IN InTchImage(<<cell.B, cell.j>>, mOffset)
    /\ (ilvBlock = 2 /\ ilvK = 0) =>
         /\ {c \in IlvCells(8) : IlvCount(c) = 1} = TchImage(IlvFirstOffset)
         /\ Cardinality(TchImage(IlvFirstOffset)) = 456
         /\ \A B \in 0..7 :
              Cardinality({c \in TchImage(IlvFirstOffset) : c[1] = B}) = 57
    /\ ilvPC = "done" => \A c \in IlvCells(8) : IlvCount(c) = 1

\* Both blocks were interleaved, the first at block offset 4.
C10_Witness ==
  /\ encKind = "TCHFACCH" /\ ilvPC = "done" /\ ilvBlock = 3
  /\ IlvFirstOffset = 4
  /\ \A B \in 1..8 : \A j \in 1..114 : mIenc[B][j] # 0

----------------------------------------------------------------------------
(* The TCH/FACCH encoder looped back into the TCH/FACCH decoder over a     *)
(* radio that delivers every burst as sent.                                *)

SpeechScripts == {<<0, 1>>, <<2, 3>>, <<3, 2>>, <<1, 1>>}
SpeechLatencies == {1, 2}

\* L1Encoder::open on a TCH/FACCH encoder just constructed: the dispatch
\* thread is started.
InitEncoderOpened(kind) ==
  /\ encKind = kind
  /\ mTotalBursts = 0
  /\ mPrevWriteTime = ConstructedTime(kind, clockFN)
  /\ mNextWriteTime = ConstructedTime(kind, clockFN)
  /\ mActiveEnc = TRUE
  /\ mRunningEnc = TRUE
  /\ ctlPC = "idle" /\ ctlI = 0 /\ ctlN = 0 /\ ctlStamp = NoTime /\ ctlOp = "none"
  /\ opsDone = 1
  /\ svcPC = (IF HasThread(kind) THEN "top" ELSE "none") /\ svcI = 0 /\ svcStamp = NoTime
  /\ txSeen = 0 /\ txPrev = NoTime /\ txLast = NoTime

\* TCHFACCHL1Encoder::TCHFACCHL1Encoder and
\* TCHFACCHL1Decoder::TCHFACCHL1Decoder: the interleave buffers are
\* zero-filled; the frames of s are in the speech queue.
InitTchCodec(s) ==
  /\ script = s /\ sentFrames = Len(s)
  /\ mUenc = Zeros(189) /\ mCenc = Zeros(456) /\ mIenc = Rows(8, 0)
  /\ air = <<>>
  /\ mIdec = Rows(8, 0) /\ mCdec = Zeros(456) /\ mUdec = Zeros(189)
  /\ mReadTime = NoTime
  /\ upFrames = <<>>
  /\ mItag = <<>> /\ mCtag = <<>>
  /\ rxGot = [n \in 1..MaxBlocks |-> {}]
  /\ rxResult = [n \in 1..MaxBlocks |-> "none"]
  /\ deintFrame = 0
  /\ InitTchIdle
  /\ InitIlvIdle
  /\ InitPwrIdle
  /\ mSpeechQ = [i \in 1..Len(s) |-> i]
  /\ mL2Q = <<>> /\ currentFACCH = FALSE /\ dispatched = <<>>
  /\ InitHsIdle
  /\ InitMoreIdle

InitTCH ==
  /\ InitClock(0)
  /\ InitEncoderOpened("TCHFACCH")
  /\ InitDecOpened
  /\ \E q \in SpeechLatencies :
       InitSacch("EGSM900", [DefaultConfig EXCEPT !.maxSpeechLatency = q])
  /\ \E s \in SpeechScripts : InitTchCodec(s)

NextTCH ==
  \/ TCHRoutine
  \/ TCHDispatch
  \/ TchDispatchBlock
  \/ TCHStampBurst
  \/ TchWriteBurst
  \/ TchWriteLowSide
  \/ ClockWake

SpecTCH == InitTCH /\ [][NextTCH]_vars

AllFour == {0, 1, 2, 3}

\* C6: a speech frame whose eight bursts, the four of its block and the four
\* of the next, all went into an open decoder as sent and in order is counted
\* good and goes upstream once, equal to the frame that was encoded.
C6_SpeechLoopbackIsIdentity ==
  \A n \in 1..Len(blocks) :
    (/\ blocks[n] # 0
     /\ n < MaxBlocks
     /\ rxGot[n] = AllFour /\ rxGot[n + 1] = AllFour
     /\ deintFrame >= n) =>
      /\ rxResult[n] = "good"
      /\ Cardinality({m \in 1..Len(upFrames) : upFrames[m].frame = n}) = 1
      /\ \A m \in 1..Len(upFrames) :
           upFrames[m].frame = n =>
             /\ upFrames[m].good
             /\ upFrames[m].bits = SpeechFrame(script[blocks[n]])

\* Two different speech frames went round the loop.
C6_Witness ==
  /\ script = <<2, 3>> /\ blocks = <<1, 2, 0>>
  /\ rxResult[1] = "good" /\ rxResult[2] = "good"
  /\ \E m \in 1..Len(upFrames) :
       upFrames[m].frame = 2 /\ upFrames[m].bits = SpeechFrame(3)
----------------------------------------------------------------------------
(* The power control functions under every band, every code and a range    *)
(* of powers.                                                              *)

InitPower ==
  /\ InitClock(0)
  /\ InitEncoder("SACCH")
  /\ InitDecBase
  /\ \E b \in Bands : InitSacch(b, DefaultConfig)
  /\ InitCodecIdle

NextPower ==
  \/ PwrDecode
  \/ PwrOrder
  \/ PwrEncode

SpecPower == InitPower /\ [][NextPower]_vars

\* C11: for each band's table and every code c in 0..31, the code that
\* encodePower returns for decodePower(c) names the same power in the table
\* as c does.
C11_PowerRoundTrip ==
  (pwrCode # -1 /\ pwrOut # -1) =>
    pickTable(band)[pwrOut + 1] = pickTable(band)[pwrCode + 1]

\* The low band table has 39 dBm at the codes 0, 1 and 2: code 0 comes back
\* as another code of the same power.
C11_Witness ==
  /\ band = "EGSM900" /\ pwrCode = 0 /\ pwrOut # -1 /\ pwrOut # pwrCode
  /\ pickTable(band)[pwrOut + 1] = 39

\* The error of a code against a power.
PowerErr(code) == Abs(pwrDBm - pickTable(band)[code + 1])

\* C12: encodePower returns a code that minimises |dBm - table[code]| over
\* the codes 0..31, and the smallest of the codes that attain the minimum.
C12_EncodePowerFirstMinimum ==
  pwrOut # -1 =>
    /\ \A code \in 0..31 : PowerErr(pwrOut) <= PowerErr(code)
    /\ \A code \in 0..31 : PowerErr(code) = PowerErr(pwrOut) => pwrOut <= code

\* The half of C12 that holds: the code returned minimises the error.
C12_EncodePowerMinimises ==
  pwrOut # -1 => \A code \in 0..31 : PowerErr(pwrOut) <= PowerErr(code)
----------------------------------------------------------------------------
(* The TCH/FACCH dispatch thread of an encoder opened once, fed by the      *)
(* speech thread and by FACCH frames from Layer 2, in front of a radio that *)
(* sends each burst on.                                                     *)

DispatchScripts == {<<1, 2, 3>>}

InitDispatch ==
  /\ InitClock(0)
  /\ InitEncoderOpened("TCHFACCH")
  /\ InitDecOpened
  /\ \E q \in SpeechLatencies :
       InitSacch("EGSM900", [DefaultConfig EXCEPT !.maxSpeechLatency = q])
  /\ \E s \in DispatchScripts :
       /\ script = s /\ sentFrames = 0
       /\ mUenc = Zeros(189) /\ mCenc = Zeros(456) /\ mIenc = Rows(8, 0)
       /\ air = <<>>
       /\ mIdec = Rows(8, 0) /\ mCdec = Zeros(456) /\ mUdec = Zeros(189)
       /\ mReadTime = NoTime
       /\ upFrames = <<>>
       /\ mItag = <<>> /\ mCtag = <<>>
       /\ rxGot = [n \in 1..MaxBlocks |-> {}]
       /\ rxResult = [n \in 1..MaxBlocks |-> "none"]
       /\ deintFrame = 0
  /\ InitTchIdle
  /\ InitIlvIdle
  /\ InitPwrIdle
  /\ InitQueuesIdle
  /\ InitHsIdle
  /\ InitMoreIdle

NextDispatch ==
  \/ TCHRoutine
  \/ TCHDispatch
  \/ TchSendFrame
  \/ TchSendTCH
  \/ TchDispatchBlock
  \/ TCHStampBurst
  \/ TchWriteBurst
  \/ RadioSend
  \/ ClockWake

SpecDispatch == InitDispatch /\ [][NextDispatch]_vars

\* The stealing flags of a burst as sent.
BurstHl(bits) == bits[60 + 1]
BurstHu(bits) == bits[87 + 1]

\* Whether the n-th block dispatched carried a FACCH frame; there is no block
\* before the first.
BlockIsFACCH(n) == n >= 1 /\ n <= Len(dispatched) /\ dispatched[n].choice = "facch"

\* C13: every burst of a block goes to the radio with Hu = 1 exactly when the
\* block carries a FACCH frame and Hl = 1 exactly when the block this encoder
\* sent before it carried one; the first block after open() has Hl = 0.
C13_StealingFlags ==
  \A i \in 1..Len(air) :
    /\ BurstHu(air[i].bits) = 1 <=> BlockIsFACCH(air[i].frame)
    /\ BurstHl(air[i].bits) = 1 <=> BlockIsFACCH(air[i].frame - 1)

\* A FACCH frame went out in the first block, speech in the second: the last
\* burst of the second block has Hl = 1 and Hu = 0.
C13_Witness ==
  /\ Len(dispatched) = 2
  /\ dispatched[1].choice = "facch" /\ dispatched[2].choice = "speech"
  /\ air # <<>> /\ air[1].frame = 2 /\ air[1].B = 3
  /\ BurstHl(air[1].bits) = 1 /\ BurstHu(air[1].bits) = 0

\* c[] for a FACCH frame and for a speech frame.
FacchBlock(id) == ConvEncode(xcchEncodeU(Zeros(228), Payload(id), "XCCH"))
SpeechBlock(id) ==
  tchEncodeC(tchEncodeU(tchEncodeD(SpeechFrame(id))), tchEncodeD(SpeechFrame(id)))

\* C14: when dispatch enters its burst loop the block holds the FACCH frame at the head of the
\* FACCH queue if that queue was not empty; else the oldest frame the speech
\* queue held after the latency control; else the filler block.
C14_DispatchPriority ==
  (dispatched # <<>> /\ svcPC = "stamp" /\ svcI = 0) =>
    LET last == dispatched[Len(dispatched)] IN
    /\ last.l2q # <<>> => mCenc = FacchBlock(Head(last.l2q))
    /\ (last.l2q = <<>> /\ last.after # <<>>) =>
         /\ mCenc = SpeechBlock(script[Head(last.after)])
         /\ \A i \in 1..Len(last.after) : Head(last.after) <= last.after[i]
    /\ (last.l2q = <<>> /\ last.after = <<>>) => mCenc = fillerC

\* A FACCH frame went out while two speech frames were queued, and the block
\* after it is filler: the FACCH block flushed the speech queue.
C14_Witness ==
  /\ Len(dispatched) = 2
  /\ dispatched[1].l2q # <<>> /\ Len(dispatched[1].after) = 2
  /\ dispatched[2].l2q = <<>> /\ dispatched[2].after = <<>>
  /\ svcPC = "stamp" /\ svcI = 0
  /\ mCenc = fillerC
  /\ FacchBlock(0) # fillerC /\ FacchBlock(0) # SpeechBlock(script[1])

----------------------------------------------------------------------------
(* The TCH/FACCH encoder looped back into the TCH/FACCH decoder while       *)
(* Layer 2 sends FACCH frames into the speech stream.                       *)

InitFACCH ==
  /\ InitClock(0)
  /\ InitEncoderOpened("TCHFACCH")
  /\ InitDecOpened
  /\ InitSacch("EGSM900", DefaultConfig)
  /\ InitTchCodec(<<2, 3>>)

NextFACCH ==
  \/ TCHRoutine
  \/ TCHDispatch
  \/ TchSendOneFrame
  \/ TchDispatchBlock
  \/ TCHStampBurst
  \/ TchWriteBurst
  \/ TchWriteLowSide
  \/ ClockWake

SpecFACCH == InitFACCH /\ [][NextFACCH]_vars

\* The speech frames that went upstream for block n.
SpeechUpstream(n) ==
  {m \in 1..Len(upFrames) : upFrames[m].frame = n /\ ~upFrames[m].facch}

\* The FACCH frames that went upstream for block n.
FacchUpstream(n) ==
  {m \in 1..Len(upFrames) : upFrames[m].frame = n /\ upFrames[m].facch}

\* C16: for every block the decoder has completed, stolen or not, one speech
\* frame went upstream: the decoded frame of a good block, a muted frame for a
\* bad or a stolen block; and the FACCH frame of a stolen block whose parity
\* check passed went upstream too.
C16_EveryBlockFeedsSpeech ==
  \A n \in 1..MaxBlocks :
    rxResult[n] # "none" =>
      /\ Cardinality(SpeechUpstream(n)) = 1
      /\ rxResult[n] = "stolen" => Cardinality(FacchUpstream(n)) <= 1

\* The part of C16 that holds: a block that was not stolen sends exactly one
\* speech frame upstream and no FACCH frame, and a stolen block sends its FACCH
\* frame, equal to the frame Layer 2 queued.
C16_UnstolenFeedsSpeech ==
  \A n \in 1..MaxBlocks :
    /\ rxResult[n] \in {"good", "bad"} =>
         /\ Cardinality(SpeechUpstream(n)) = 1
         /\ FacchUpstream(n) = {}
    /\ (rxResult[n] = "stolen" /\ rxGot[n] = AllFour /\ rxGot[n + 1] = AllFour) =>
         /\ Cardinality(FacchUpstream(n)) = 1
         /\ \A m \in FacchUpstream(n) :
              upFrames[m].bits = Payload(Head(dispatched[n].l2q))
----------------------------------------------------------------------------
(* An XCCH encoder and its sibling decoder under every sequence of          *)
(* writeHighSide calls, while frames arrive at the decoder and its timers   *)
(* run.                                                                     *)

InitHighSide ==
  /\ InitClock(2)
  /\ InitEncoder("XCCH")
  /\ InitDecBase
  /\ InitSacch("EGSM900", DefaultConfig)
  /\ InitXcchCodec(<<3, 4>>)

NextHighSide ==
  \/ HsData
  \/ HsEstablish
  \/ HsClose
  \/ HsIdleFillBurst
  \/ HsReturn
  \/ CtlWaitToSend
  \/ XcchTransmitBurst
  \/ RadioSend
  \/ ClockWake
  \/ DecGoodFrame
  \/ DecTick

SpecHighSide == InitHighSide /\ [][NextHighSide]_vars

\* A step of the thread inside writeHighSide.
HsStep == encVars' # encVars \/ hsVars' # hsVars

\* writeHighSide returns.
HsReturns(p) == hsPC = "busy" /\ hsPC' = "idle" /\ primitive = p

\* C17: when writeHighSide returns, DATA has encoded its frame and sent the
\* four bursts; ESTABLISH has opened the encoder and the sibling decoder;
\* RELEASE has closed both; ERROR has closed the encoder, and no step of the
\* call touched the decoder's open flag or its timers; the decoder turns
\* recyclable only when time passes.
C17_PrimitiveEffects ==
  [][/\ HsReturns("DATA") =>
          /\ ctlI' = 4
          /\ mCenc' = ConvEncode(mUenc')
          /\ SubSeq(mUenc', 1, 184) = LSB8MSB(Payload(script[sentFrames]))
     /\ HsReturns("ESTABLISH") =>
          /\ mActiveEnc' /\ mActiveDec'
          /\ mT3101'.active /\ ~mT3109'.active /\ ~mT3111'.active
     /\ HsReturns("RELEASE") =>
          /\ ~mActiveEnc' /\ ~mActiveDec'
          /\ mT3111'.active /\ ~mT3101'.active /\ ~mT3109'.active
     /\ HsReturns("ERROR") => ~mActiveEnc'
     /\ (HsStep /\ primitive' = "ERROR") => UNCHANGED decBaseVars
     /\ (~recyclable /\ recyclable') => ticks' # ticks
    ]_vars

\* An ERROR call returned on an open channel whose decoder had taken a good
\* frame: the encoder is closed, the decoder still open with T3109 running.
C17_Witness ==
  /\ primitive = "ERROR" /\ hsPC = "idle"
  /\ ~mActiveEnc /\ mActiveDec
  /\ mT3109.active /\ ~mT3111.active
----------------------------------------------------------------------------
(* The life cycle of an XCCH or TCH/FACCH decoder behind a demultiplexer    *)
(* that may hand it bursts of foreign frame numbers.                        *)

InitDemux ==
  /\ InitClock(0)
  /\ \E kind \in {"XCCH", "TCHFACCH"} : InitEncoder(kind)
  /\ InitDecBase
  /\ InitSacch("EGSM900", DefaultConfig)
  /\ InitCodecIdle

\* The threads of a process that has stopped take no step.
DemuxDecOpen == process = "running" /\ DecOpen
DemuxDecClose == process = "running" /\ DecClose
DemuxDecGoodFrame == process = "running" /\ DecGoodFrame
DemuxDecBadFrame == process = "running" /\ DecBadFrame
DemuxDecTick == process = "running" /\ DecTick

NextDemux ==
  \/ DemuxDecOpen
  \/ DemuxDecClose
  \/ DemuxDecGoodFrame
  \/ DemuxDecBadFrame
  \/ DemuxDecTick
  \/ DemuxStrayBurst

SpecDemux == InitDemux /\ [][NextDemux]_vars

\* C18: once an active decoder was handed a burst of a frame number outside
\* its mapping the process is aborted, and no interleave row outside the
\* buffer is ever indexed; the process stops in no other way.
C18_StrayBurstAborts ==
  /\ ~oobIndexed
  /\ process \in {"running", "aborted"}
  /\ strays > 0 => process = "aborted"
----------------------------------------------------------------------------
(* The RACH decoder on the access bursts of the handset.                   *)

BSICs == {42, 21}

InitRACH ==
  /\ encKind = "XCCH"
  /\ InitClock(0)
  /\ InitEncoder("XCCH")
  /\ InitDecOpened
  /\ InitSacch("EGSM900", DefaultConfig)
  /\ InitCodecBuffersIdle
  /\ InitFaultIdle
  /\ InitInspIdle
  /\ InitRadioIdle
  /\ InitLowIdle
  /\ rachIn = <<>> /\ rachUp = <<>> /\ mUrach = Zeros(18)
  /\ BSIC \in BSICs

NextRACH ==
  \/ RachArrive
  \/ RachWriteLowSide

SpecRACH == InitRACH /\ [][NextRACH]_vars

\* The bits of the burst as the decoder reads them.
RachDecoded(burst) == Viterbi(SubSeq(burst.bits, 50, 85))

\* The acceptance test in the words of GSM 05.03 4.6: the tail is zero and
\* the inverted sent parity differs from the parity of d by the BSIC, bit by bit.
RachAccepts(u) ==
  /\ \A i \in 15..18 : u[i] = 0
  /\ LET p == Bits(rachParity(SubSeq(u, 1, 8)), 6)
         b == Bits(BSIC, 6)
     IN \A i \in 1..6 : Xor(1 - u[8 + i], p[i]) = b[i]

\* C20: the RACH decoder hands (RA, burst time, RSSI, TA) upstream exactly
\* when the tail bits u[14..17] are zero and the inverted parity u[8..13]
\* XORed with the parity of d is the BSIC; otherwise it counts one bad frame
\* and hands nothing upstream; a TA handed upstream is an integer in 0..63.
C20_RachAcceptance ==
  [][Len(rachIn') < Len(rachIn) =>
       LET burst == Head(rachIn)
           u == RachDecoded(burst)
       IN IF RachAccepts(u)
            THEN /\ Len(rachUp') = Len(rachUp) + 1
                 /\ SubSeq(rachUp', 1, Len(rachUp)) = rachUp
                 /\ LET up == rachUp'[Len(rachUp')] IN
                      /\ up.RA = peekField(LSB8MSB(SubSeq(u, 1, 8)), 0, 8)
                      /\ up.time = burst.time
                      /\ up.RSSI = burst.RSSI
                      /\ up.TA \in 0..63
                 /\ mFER' # countBadFrame(mFER)
            ELSE /\ rachUp' = rachUp
                 /\ mFER' = countBadFrame(mFER)]_vars

\* A request 0x5A for colour code 42 went upstream from a cell of colour code
\* 42 that also turned one access burst down.
C20_Witness ==
  /\ BSIC = 42
  /\ Len(rachUp) = 1 /\ rachUp[1].RA = 90 /\ rachUp[1].TA \in 0..63
  /\ decOps = 3 /\ mFER.num > 0
----------------------------------------------------------------------------
(* A decoder that is closed, or whose timers run out, while bursts arrive. *)

InitInactive ==
  /\ InitDecOpened
  /\ InitSacch("EGSM900", DefaultConfig)
  /\ \/ /\ InitClock(2)
        /\ InitEncoder("XCCH")
        /\ InitXcchCodec(<<3>>)
     \/ /\ InitClock(0)
        /\ InitEncoderOpened("TCHFACCH")
        /\ InitTchCodec(<<2>>)

MaxShutOps == 2
MaxShutTicks == 3

\* close() is called once; wall time runs on until T3101 or T3111 is over.
ShutClose == decOps < MaxShutOps /\ DecClose
ShutTick == ticks < MaxShutTicks /\ DecTick

\* One block of four bursts is enough to reach a decode.
MaxShutBlocks == 1
ShutDispatchBlock == Len(blocks) < MaxShutBlocks /\ TchDispatchBlock

NextInactive ==
  \/ XcchWriteHighSideData
  \/ CtlWaitToSend
  \/ XcchTransmitBurst
  \/ TCHRoutine
  \/ TCHDispatch
  \/ ShutDispatchBlock
  \/ TCHStampBurst
  \/ TchWriteBurst
  \/ LowSideEnter
  \/ LowSideProcess
  \/ ShutClose
  \/ ShutTick
  \/ ClockWake

SpecInactive == InitInactive /\ [][NextInactive]_vars

\* The timers as close() and the clock leave them, by their own fields.
DecoderShut ==
  \/ ~mActiveDec
  \/ \E t \in {mT3101, mT3109, mT3111} : t.active /\ t.left = 0

\* What a burst taken by the decoder may write.
decoderState ==
  <<mIdec, mCdec, mUdec, mReadTime, upFrames, phyVars, mFER, decBaseVars>>

\* C21: a burst handed to writeLowSide of a decoder that is not active
\* changes neither the interleave buffers, the measurements, the phy-new flag,
\* FER, the timers nor the upstream output; and close() leaves a call of
\* writeLowSide or writeHighSide that is under way where it is, and the call
\* of writeLowSide then takes its burst in.
C21_InactiveDropsBurst ==
  [][/\ (lowPC = "idle" /\ Len(air') < Len(air) /\ DecoderShut) =>
          (lowPC' = "idle" /\ UNCHANGED decoderState)
     /\ (mActiveDec /\ ~mActiveDec') =>
          UNCHANGED <<lowPC, lowBurst, ctlPC, ctlI, ctlN, ctlOp, svcPC, svcI>>
     /\ (lowPC = "process" /\ lowPC' = "idle") =>
          mRSSICounter' # mRSSICounter]_vars

\* The decoder was shut while a burst was inside writeLowSide.
C21_ClosedUnderWay ==
  /\ lowPC = "process"
  /\ ~mActiveDec
  /\ lowBurst # <<>>

\* A burst came to a shut decoder and is gone.
C21_Witness ==
  /\ lowPC = "idle" /\ lowBurst # <<>> /\ DecoderShut
  /\ air = <<>>
----------------------------------------------------------------------------
(* Every encoder class, opened, fed and closed with no radio bound.        *)

InitNoRadio ==
  /\ \E kind \in EncoderKinds :
       /\ encKind = kind
       /\ clockFN \in ClockStarts(kind)
       /\ ticks = 0
       /\ InitEncoder(kind)
  /\ InitDecBase
  /\ InitSacch("EGSM900", DefaultConfig)
  /\ InitCodecBuffersIdle
  /\ InitFaultIdle
  /\ InitLowIdle
  /\ InitInspIdle
  /\ InitRachIdle
  /\ mDownstream = FALSE
  /\ onC0 = TRUE
  /\ mUpstream = TRUE

NextNoRadio ==
  \/ EncOpen
  \/ EncClose
  \/ NoRadioWriteHighSideData
  \/ NoRadioSchWriteHighSide
  \/ CtlWaitToSend
  \/ NoRadioCtlWriteBurst
  \/ GenLoop
  \/ GenGenerate
  \/ TCHRoutine
  \/ TCHDispatch
  \/ TCHInactiveWait
  \/ TCHWaitToSend
  \/ TCHStampBurst
  \/ NoRadioSvcWriteBurst
  \/ ClockTick

SpecNoRadio == InitNoRadio /\ [][NextNoRadio]_vars

\* C22: with no radio bound the encoder never dies of a transmit, and no step
\* counts a burst (mTotalBursts, mPrevWriteTime) that was not sent.
C22_NoRadioDropsBursts ==
  [][/\ process' = "running"
     /\ mTotalBursts' <= mTotalBursts
     /\ mPrevWriteTime' = mPrevWriteTime]_vars

\* The part that holds: a DATA frame on XCCH or SACCH is dropped by sendFrame
\* with the burst counter and both write times of rollForward as they were.
C22_SendFrameDrops ==
  [][(encKind \in {"XCCH", "SACCH"} /\ opsDone' > opsDone /\ ctlPC' = "idle"
      /\ mActiveEnc' = mActiveEnc) =>
       (process' = "running" /\ UNCHANGED <<mTotalBursts, mPrevWriteTime, txSeen>>)]_vars
----------------------------------------------------------------------------
(* The phase of the TCH/FACCH diagonal interleaver on both sides.          *)

\* The burst the radio hands the decoder next, and its index in the mapping.
NextBurstB == reverseMapping(encKind, Head(air).time.FN) % 8

\* The rows deinterleave(off) takes the first half of a frame from: the
\* cells of c[k] with k mod 8 < 4.
FirstHalfRows(off) == {tchDeinterleaveCell(k, off).B : k \in {x \in 0..455 : x % 8 < 4}}

\* C29: mOffset is 0 or 4 and changes over with the fourth burst of every
\* block and at no other step; the decoder deinterleaves on the bursts with
\* B mod 4 = 3 and on no other, at blockOffset 4 for B = 3 and 0 for B = 7;
\* the frame deinterleaved at blockOffset 4 has its first half in bursts 4..7.
C29_BlockOffsetPhase ==
  [][/\ mOffset \in {0, 4} /\ mOffset' \in {0, 4}
     /\ (mOffset' # mOffset) <=> (svcPC = "write" /\ svcI = 3 /\ Len(air') > Len(air))
     /\ Len(air') < Len(air) =>
          LET B == NextBurstB
              I1 == [mIdec EXCEPT ![B + 1] = rxData(Loopback(Head(air).bits))]
          IN IF B % 4 = 3
               THEN mCdec' = tchDeinterleave(mCdec, I1, IF B = 3 THEN 4 ELSE 0, Neutral)[1]
               ELSE mCdec' = mCdec
     /\ FirstHalfRows(4) = {4, 5, 6, 7}
     /\ FirstHalfRows(0) = {0, 1, 2, 3}]_vars

\* The decoder has deinterleaved once at each phase and the encoder is back
\* at offset 0 after an even number of blocks.
C29_Witness ==
  /\ Len(blocks) = 2 /\ deintFrame = 1 /\ mOffset = 0 /\ svcPC = "top"
  /\ rxGot[1] = AllFour /\ rxGot[2] = AllFour
----------------------------------------------------------------------------
(* resync() on encoders whose next write time has drifted from the clock.  *)

\* mNextWriteTime - now, in frames, around both ends of the window.
Drifts == {-1400, -1327, -27, -1, 0, 1, 51 * 26, 51 * 26 + 1, 1400}
\* Frames near which the schedule is anchored: the start, the middle, and
\* the end of the hyperframe.
Anchors == {0, 1000, Hyperframe - 30}
\* Bursts sent since open().
Totals == {0, 1, 3}

InitResync ==
  /\ \E kind \in EncoderKinds, total \in Totals, anchor \in Anchors, drift \in Drifts :
       LET next == TimeRollForward(MkTime(anchor, ChannelTN(kind)),
                                   frameMapping(kind, total), repeatLength(kind))
       IN /\ encKind = kind
          /\ mTotalBursts = total
          /\ mNextWriteTime = next
          /\ mPrevWriteTime = next
          /\ clockFN = (next.FN + Hyperframe - drift) % Hyperframe
  /\ ticks = 0
  /\ mActiveEnc = TRUE /\ mRunningEnc = TRUE
  /\ ctlPC = "idle" /\ ctlI = 0 /\ ctlN = 0 /\ ctlStamp = NoTime /\ ctlOp = "none"
  /\ opsDone = 0
  /\ svcPC = "none" /\ svcI = 0 /\ svcStamp = NoTime
  /\ txSeen = 0 /\ txPrev = NoTime /\ txLast = NoTime
  /\ InitDecBase
  /\ InitSacch("EGSM900", DefaultConfig)
  /\ InitCodecIdle

NextResync ==
  \/ EncResync
  \/ ClockTick

SpecResync == InitResync /\ [][NextResync]_vars

\* A call of resync().
ResyncStep == opsDone' > opsDone

\* mNextWriteTime - now lies outside [0, 51*26].
OutOfWindow ==
  LET delta == FNDelta(mNextWriteTime.FN, clockFN) IN delta < 0 \/ delta > 51 * 26

\* The first frame at or after now that the channel's mapping schedules.
FirstScheduled ==
  LET d == CHOOSE x \in 0..(repeatLength(encKind) - 1) :
             /\ reverseMapping(encKind, (clockFN + x) % Hyperframe) >= 0
             /\ \A y \in 0..(x - 1) : reverseMapping(encKind, (clockFN + y) % Hyperframe) < 0
  IN MkTime((clockFN + d) % Hyperframe, ChannelTN(encKind))

\* The first frame at or after now that the mapping schedules for the burst
\* the encoder is at, burst mTotalBursts of the repeat.
FirstOfCurrentBurst ==
  LET want == frameMapping(encKind, mTotalBursts)
      d == CHOOSE x \in 0..(repeatLength(encKind) - 1) :
             /\ ((clockFN + x) % Hyperframe) % repeatLength(encKind) = want
             /\ \A y \in 0..(x - 1) :
                  ((clockFN + y) % Hyperframe) % repeatLength(encKind) # want
  IN MkTime((clockFN + d) % Hyperframe, ChannelTN(encKind))

\* C28: resync() changes mNextWriteTime exactly when mNextWriteTime - now
\* lies outside [0, 51*26]; it then becomes the first scheduled burst of the
\* channel at or after now; otherwise mNextWriteTime, mPrevWriteTime and
\* mTotalBursts are left as they were.
C28_ResyncFirstScheduled ==
  [][ResyncStep =>
       /\ (mNextWriteTime' # mNextWriteTime) <=> OutOfWindow
       /\ OutOfWindow => mNextWriteTime' = FirstScheduled
       /\ ~OutOfWindow => UNCHANGED <<mNextWriteTime, mPrevWriteTime, mTotalBursts>>]_vars

\* C28, amended: as above, but the time it becomes is the first frame at or
\* after now scheduled for burst mTotalBursts of the repeat; mPrevWriteTime
\* and mTotalBursts are left as they were in every case.
C28_ResyncCurrentBurst ==
  [][ResyncStep =>
       /\ (mNextWriteTime' # mNextWriteTime) <=> OutOfWindow
       /\ OutOfWindow => mNextWriteTime' = FirstOfCurrentBurst
       /\ UNCHANGED <<mPrevWriteTime, mTotalBursts>>]_vars

\* resync() has moved the write time, past a burst the channel schedules
\* at or after now.
C28_Witness ==
  /\ opsDone = 1 /\ ticks = 0
  /\ mNextWriteTime # mPrevWriteTime
  /\ mNextWriteTime # FirstScheduled
----------------------------------------------------------------------------
(* The SACCH closed loop between the decoder's thread and the encoder's.   *)

InitLoop ==
  /\ InitClock(42)
  /\ InitEncoder("SACCH")
  /\ InitDecBase
  /\ InitSacch("EGSM900", DefaultConfig)
  /\ InitCodecBuffersIdle
  /\ InitFaultIdle
  /\ InitLowIdle
  /\ InitInspIdle
  /\ InitRachIdle
  /\ mDownstream = TRUE /\ onC0 = TRUE
  /\ mUpstream \in BOOLEAN

NextLoop ==
  \/ SacchEncOpen
  \/ SacchDecOpen
  \/ SacchSendFrame
  \/ SacchWriteLowSide
  \/ CtlWaitToSend
  \/ CtlWriteBurst
  \/ ClockTick

SpecLoop == InitLoop /\ [][NextLoop]_vars

\* A call of SACCHL1Encoder::sendFrame.
SendFrameStep == opsDone' > opsDone /\ ctlOp' = "data"

\* The burst that completes an uplink frame is taken in.
FrameComplete == rxB = 3 /\ rxBursts' > rxBursts

\* C27: mPhyNew is cleared by nothing but the encoder's read in sendFrame;
\* every received frame leaves it set for the loop; the loop runs on whole
\* frames, so none is skipped and none is applied twice.
C27_LoopOncePerFrame ==
  [][/\ (mPhyNew /\ ~mPhyNew') => SendFrameStep
     /\ FrameComplete => mPhyNew'
     /\ (SendFrameStep /\ mPhyNew) => rxB = 0]_vars

\* The part that holds: sendFrame runs the loop exactly when the flag is set
\* and leaves it clear, and the decoder sets it with every burst it stores
\* short of a good frame handed upstream.
C27_LoopGatedByFlag ==
  [][/\ SendFrameStep =>
          /\ ~mPhyNew'
          /\ ~mPhyNew => UNCHANGED <<mOrderedMSPower, mOrderedMSTiming>>
     /\ (rxBursts' > rxBursts /\ ~(FrameComplete /\ mUpstream)) => mPhyNew']_vars

\* A good frame was handed upstream; the loop has not seen its measurements
\* and the flag is clear.
C27_FrameSkipped == mUpstream /\ rxBursts = 4 /\ mFER.num = 0 /\ mFER.exp > 0 /\ ~mPhyNew /\ opsDone <= 2
----------------------------------------------------------------------------
(* A decoder taking bursts in while another thread calls its inspectors.   *)

MaxInspectBursts == 3

\* The radio delivers the first bursts of a block.
InspectLowSideEnter == mRSSICounter < MaxInspectBursts /\ LowSideEnter

NextInspect ==
  \/ XcchWriteHighSideData
  \/ CtlWaitToSend
  \/ XcchTransmitBurst
  \/ TCHRoutine
  \/ TCHDispatch
  \/ ShutDispatchBlock
  \/ TCHStampBurst
  \/ TchWriteBurst
  \/ ClockWake
  \/ InspectLowSideEnter
  \/ PhyWriteRSSI
  \/ PhyWriteTimingError
  \/ PhyFinish
  \/ ShutTick
  \/ InspectRSSI
  \/ InspectTimingError
  \/ InspectActive
  \/ InspectRecyclable
  \/ InspectUplinkLost

SpecInspect == InitInactive /\ [][NextInspect]_vars

\* A call of an inspector.
InspectorStep == insCalls' # insCalls

\* writeLowSide is between two of its writes to the measurements.
WritePartWay == lowPC \in {"rssi", "timing"}

\* C26: active, recyclable, RSSI, timingError and uplinkLost change no shared
\* state, and none of them is given the measurement arrays, mPhyNew or the
\* timers while writeLowSide is part-way through updating them.
C26_InspectorsReadOnlyAndAtomic ==
  [][InspectorStep =>
       /\ UNCHANGED <<phyVars, decBaseVars, mFER>>
       /\ insSeen'.what \in {"RSSI", "timingError"} => ~WritePartWay]_vars

\* The part that holds: active, recyclable and uplinkLost change nothing, and
\* what they are given is the value of the timers as the last locked update
\* left them.
C26_LockedInspectorsReadOnly ==
  [][(InspectorStep /\ insSeen'.what \in {"active", "recyclable", "uplinkLost"}) =>
       /\ UNCHANGED <<phyVars, decBaseVars, mFER>>
       /\ insSeen'.what = "active" => insSeen'.value = (IF activeDec THEN 1 ELSE 0)
       /\ insSeen'.what = "recyclable" => insSeen'.value = (IF recyclable THEN 1 ELSE 0)
       /\ insSeen'.what = "uplinkLost" =>
            insSeen'.value = (IF TimerExpired(mT3109) THEN 1 ELSE 0)]_vars

\* RSSI() was given an average with the newest burst's RSSI in it and that
\* burst's timing error not yet stored.
C26_TornRead == insSeen.what = "RSSI" /\ lowPC = "rssi" /\ insSeen.value = Mean4(mRSSI)
----------------------------------------------------------------------------
(* The TCH/FACCH encoder opened, closed and opened again, every thread     *)
(* fairly scheduled.                                                       *)

InitReopen ==
  /\ InitClock(0)
  /\ InitEncoder("TCHFACCH")
  /\ InitDecBase
  /\ InitSacch("EGSM900", DefaultConfig)
  /\ InitCodecIdle

MaxReopenTicks == 2

\* The clock runs on under a thread that sleeps on it.
ReopenClockTick == ticks < MaxReopenTicks /\ svcPC \in {"inactive", "wait"} /\ ClockTick
ReopenClockWake == ticks < MaxReopenTicks /\ ClockWake

\* The caller opens a channel that is closed and closes one that is open.
ReopenOpen == ~mActiveEnc /\ EncOpen
ReopenClose == mActiveEnc /\ EncClose

NextReopen ==
  \/ ReopenOpen
  \/ ReopenClose
  \/ CtlWriteBurst
  \/ TCHRoutine
  \/ TCHDispatch
  \/ TCHInactiveWait
  \/ TCHWaitToSend
  \/ TCHStampBurst
  \/ SvcWriteBurst
  \/ ReopenClockTick
  \/ ReopenClockWake

\* A thread that can take its next step takes it; the caller of open() and
\* close() is free to call or not.
FairReopen ==
  /\ WF_vars(CtlWriteBurst)
  /\ WF_vars(TCHRoutine)
  /\ WF_vars(TCHDispatch)
  /\ WF_vars(TCHInactiveWait)
  /\ WF_vars(TCHWaitToSend)
  /\ WF_vars(TCHStampBurst)
  /\ WF_vars(SvcWriteBurst)
  /\ WF_vars(ReopenClockTick)
  /\ WF_vars(ReopenClockWake)

SpecReopen == InitReopen /\ [][NextReopen]_vars /\ FairReopen

\* The service thread has left its routine although mRunning is set.
ThreadGone == svcPC = "exited" /\ mRunningEnc

\* The part on the exit: the dispatch thread is gone only once mRunning is clear.
C25_ExitsOnlyWhenStopped == [](~ThreadGone)

\* The part on the bursts: an open TCH/FACCH encoder comes to hand the radio a
\* burst, unless it is closed again or the clock reaches the end of what is
\* followed here.
C25_OpenEmitsAgain ==
  (mActiveEnc /\ mRunningEnc) ~> (svcPC = "write" \/ ~activeEnc \/ ticks = MaxReopenTicks)

\* C25: the service thread exits only when mRunning is cleared; the TCH/FACCH
\* dispatch thread outlives a close(), so that after close() and open() the
\* encoder emits bursts again under fair scheduling.
C25_ThreadOutlivesClose == C25_ExitsOnlyWhenStopped /\ C25_OpenEmitsAgain
----------------------------------------------------------------------------
(* T3101 and T3109 on a decoder that takes in good frames while wall time  *)
(* passes: a control channel, and a traffic channel with speech and FACCH. *)

InitAlive ==
  /\ InitDecOpened
  /\ InitSacch("EGSM900", DefaultConfig)
  /\ \/ /\ InitClock(2)
        /\ InitEncoder("XCCH")
        /\ InitXcchCodec(<<3>>)
     \/ /\ InitClock(0)
        /\ InitEncoderOpened("TCHFACCH")
        /\ InitTchCodec(<<2, 3>>)

\* A good frame has been taken in since open().
GoodFrameSeen ==
  IF encKind = "TCHFACCH"
    THEN \E m \in 1..Len(upFrames) : upFrames[m].good
    ELSE \E f \in DOMAIN rxResult : rxResult[f] = "good"

\* Wall time passes between two calls of the decoder; it is followed from the
\* first good frame on.
AliveTimePasses ==
  /\ GoodFrameSeen
  /\ \E t \in {mT3101, mT3109} : t.active /\ t.left > 0
  /\ DecTimePasses

\* Layer 2 sends its one FACCH frame before the first block is built.
AliveSendOneFrame == blocks = <<>> /\ TchSendOneFrame

\* The decoder of the channel's own kind takes the burst.
AliveXcchWriteLowSide == encKind = "XCCH" /\ XcchWriteLowSide

\* Three blocks carry two whole frames, speech or FACCH.
MaxAliveBlocks == 3
AliveDispatchBlock == Len(blocks) < MaxAliveBlocks /\ TchDispatchBlock

NextAlive ==
  \/ XcchWriteHighSideData
  \/ CtlWaitToSend
  \/ XcchTransmitBurst
  \/ AliveXcchWriteLowSide
  \/ TCHRoutine
  \/ TCHDispatch
  \/ AliveSendOneFrame
  \/ AliveDispatchBlock
  \/ TCHStampBurst
  \/ TchWriteBurst
  \/ TchWriteLowSide
  \/ AliveTimePasses
  \/ ClockWake

SpecAlive == InitAlive /\ [][NextAlive]_vars

\* The decoder counts a frame good at this step: a control frame, a FACCH
\* frame or a speech frame.
ControlFrameGood ==
  /\ encKind # "TCHFACCH"
  /\ \E f \in DOMAIN rxResult : rxResult[f] # "good" /\ rxResult'[f] = "good"
FacchFrameGood ==
  /\ encKind = "TCHFACCH"
  /\ Len(upFrames') > Len(upFrames)
  /\ upFrames'[Len(upFrames')].facch
SpeechFrameGood ==
  /\ encKind = "TCHFACCH"
  /\ Len(upFrames') > Len(upFrames)
  /\ ~upFrames'[Len(upFrames')].facch
  /\ upFrames'[Len(upFrames')].good

\* C31: a step at which an open decoder counts a frame good, of whichever
\* kind, leaves T3101 stopped and T3109 set to its full time, and once a good
\* frame has been taken in T3101 is never found expired.
C31_GoodFrameStopsT3101 ==
  [][/\ (ControlFrameGood \/ FacchFrameGood \/ SpeechFrameGood) =>
          (~mT3101'.active /\ mT3109' = TimerSet(T3109Limit))
     /\ GoodFrameSeen' => ~TimerExpired(mT3101')]_vars

\* What holds: a good control frame and a good FACCH frame stop T3101 and
\* set T3109, and a good speech frame sets T3109.
C31_ControlFrameStopsT3101 ==
  [][/\ (ControlFrameGood \/ FacchFrameGood) =>
          (~mT3101'.active /\ mT3109' = TimerSet(T3109Limit))
     /\ SpeechFrameGood => mT3109' = TimerSet(T3109Limit)]_vars

\* No traffic channel is recyclable by T3101 with good speech taken in and
\* T3109 running.
C31_NeverLostToT3101 ==
  ~(/\ encKind = "TCHFACCH" /\ GoodFrameSeen
    /\ TimerExpired(mT3101) /\ mT3109.active /\ ~TimerExpired(mT3109))
----------------------------------------------------------------------------
(* The phase of the TCH/FACCH encoder over open(), close() and open():     *)
(* mOffset against mTotalBursts, with the dispatch thread building and     *)
(* sending its blocks beside the caller.                                   *)

\* The encoder and its buffers as constructed, the channel closed, no speech
\* and no FACCH frame queued: every block the thread sends is the filler.
InitPhase ==
  /\ InitClock(0)
  /\ InitEncoder("TCHFACCH")
  /\ InitDecBase
  /\ InitSacch("EGSM900", DefaultConfig)
  /\ InitTchCodec(<<>>)

\* The radio takes a burst as soon as it is handed one: no step of the
\* encoder reads what the radio holds.
RadioIdle == air = <<>>

PhaseOpen == RadioIdle /\ ReopenOpen
PhaseClose == RadioIdle /\ ReopenClose
PhaseCtlWriteBurst == RadioIdle /\ CtlWriteBurst
PhaseRoutine == RadioIdle /\ TCHRoutine
PhaseDispatch == RadioIdle /\ TCHDispatch
PhaseInactiveWait == RadioIdle /\ TCHInactiveWait
PhaseDispatchBlock == RadioIdle /\ TchDispatchBlock
PhaseStampBurst == RadioIdle /\ TCHStampBurst
PhaseClockTick == RadioIdle /\ ReopenClockTick
PhaseClockWake == RadioIdle /\ ReopenClockWake

NextPhase ==
  \/ PhaseOpen
  \/ PhaseClose
  \/ PhaseCtlWriteBurst
  \/ PhaseRoutine
  \/ PhaseDispatch
  \/ PhaseInactiveWait
  \/ PhaseDispatchBlock
  \/ PhaseStampBurst
  \/ TchWriteBurst
  \/ RadioSend
  \/ PhaseClockTick
  \/ PhaseClockWake

SpecPhase == InitPhase /\ [][NextPhase]_vars

\* dispatch goes from waitToSend to the interleave of a new block.
BlockStart == svcPC = "wait" /\ svcPC' = "stamp"

\* The burst of a block goes to the radio.
BlockBurst == svcPC = "write" /\ Len(air') > Len(air)

\* C30: whenever dispatch starts a block, mOffset equals mTotalBursts mod 8,
\* and every burst of a block is sent in the frame the decoder takes for
\* row B + mOffset of the interleaver, whatever open() and close() did before.
C30_OffsetFollowsBurstCount ==
  [][/\ BlockStart => mOffset = mTotalBursts % 8
     /\ BlockBurst => reverseMapping(encKind, svcStamp.FN) % 8 = svcI + mOffset]_vars

\* What holds: while open() has been called once and nothing else, the
\* offset and the count agree at the start of every block and every burst
\* goes out in the frame of its row.
C30_PhaseWhileOpen ==
  [][opsDone = 1 =>
       /\ BlockStart => mOffset = mTotalBursts % 8
       /\ BlockBurst => reverseMapping(encKind, svcStamp.FN) % 8 = svcI + mOffset]_vars

\* No block starts after open(), close() and open() with the count at 0 and
\* the offset at 4.
C30_NeverOutOfPhase ==
  ~(svcPC = "stamp" /\ svcI = 0 /\ opsDone = 3 /\ mOffset = 4 /\ mTotalBursts = 0)
----------------------------------------------------------------------------
(* What makes a decoder active: open(), and the timers written by a burst  *)
(* that was let in while the decoder was still active.                     *)

InitRevive ==
  /\ InitDecOpened
  /\ InitSacch("EGSM900", DefaultConfig)
  /\ \/ /\ InitClock(2)
        /\ InitEncoder("XCCH")
        /\ InitXcchCodec(<<3, 4>>)
     \/ /\ InitClock(0)
        /\ InitEncoderOpened("TCHFACCH")
        /\ InitTchCodec(<<2>>)

\* The caller closes the channel once and opens it again.
MaxReviveOps == 3
ReviveClose == mActiveDec /\ decOps < MaxReviveOps /\ DecClose
ReviveOpen == ~mActiveDec /\ decOps < MaxReviveOps /\ DecOpen

\* Wall time passes while a burst is inside writeLowSide, between its test of
\* active() and the rest of the call.
ReviveTimePasses ==
  /\ lowPC = "process"
  /\ \E t \in {mT3101, mT3109, mT3111} : t.active /\ t.left > 0
  /\ DecTimePasses

NextRevive ==
  \/ XcchWriteHighSideData
  \/ CtlWaitToSend
  \/ XcchTransmitBurst
  \/ TCHRoutine
  \/ TCHDispatch
  \/ ShutDispatchBlock
  \/ TCHStampBurst
  \/ TchWriteBurst
  \/ LowSideEnter
  \/ LowSideProcess
  \/ ReviveClose
  \/ ReviveOpen
  \/ ReviveTimePasses
  \/ ClockWake

SpecRevive == InitRevive /\ [][NextRevive]_vars

\* A call of open() on the decoder.
OpenStep == decOps' = decOps + 1 /\ mActiveDec' /\ mT3101' = TimerSet(T3101Limit)

\* C32: active() goes from false to true at a call of open() and at no
\* other step; no step of writeLowSide does it, whatever the timers did
\* since the burst was let in.
C32_OnlyOpenActivates ==
  [][(~activeDec /\ activeDec') => OpenStep]_vars

\* What holds: no step but open() sets mActive, and a burst that finds the
\* decoder not active when it comes in leaves it so.
C32_OnlyOpenSetsActive ==
  [][/\ (~mActiveDec /\ mActiveDec') => OpenStep
     /\ (lowPC = "idle" /\ Len(air') < Len(air) /\ ~activeDec) => ~activeDec']_vars

\* No burst ends its way through writeLowSide on a decoder that is recyclable
\* and leaves it active, by T3109 set again or by T3101 stopped.
C32_NeverRevivedByT3109 ==
  [][~(/\ lowPC = "process" /\ lowPC' = "idle"
       /\ mActiveDec /\ TimerExpired(mT3109) /\ activeDec')]_vars
C32_NeverRevivedByT3101 ==
  [][~(/\ lowPC = "process" /\ lowPC' = "idle"
       /\ mActiveDec /\ TimerExpired(mT3101) /\ activeDec')]_vars
----------------------------------------------------------------------------
(* close() on every encoder class, on the beacon carrier and off it.       *)

MaxCloseOps == 2
MaxCloseTicks == 2

InitClose ==
  /\ \E kind \in EncoderKinds :
       /\ encKind = kind
       /\ clockFN \in ClockStarts(kind)
       /\ ticks = 0
       /\ InitEncoder(kind)
  /\ InitDecBase
  /\ InitSacch("EGSM900", DefaultConfig)
  /\ InitCodecBuffersIdle
  /\ InitFaultIdle
  /\ InitLowIdle
  /\ InitInspIdle
  /\ InitRachIdle
  /\ mDownstream = TRUE
  /\ onC0 \in BOOLEAN
  /\ mUpstream = TRUE

CloseOpen == opsDone < MaxCloseOps /\ EncOpen
CloseClose == opsDone < MaxCloseOps /\ EncClose
CloseTick == ticks < MaxCloseTicks /\ ClockTick

NextClose ==
  \/ CloseOpen
  \/ CloseClose
  \/ CtlWriteBurst
  \/ GenLoop
  \/ GenGenerate
  \/ TCHRoutine
  \/ TCHDispatch
  \/ TCHInactiveWait
  \/ TCHWaitToSend
  \/ TCHStampBurst
  \/ SvcWriteBurst
  \/ CloseTick

SpecClose == InitClose /\ [][NextClose]_vars

\* A step of the thread that is inside close().
CloseStep == ctlOp = "close" /\ ctlI' # ctlI

\* C24: close() clears the active flag; on C0 it then emits one repeat of
\* idle fill, numFrames bursts at consecutive scheduled times; on a channel
\* that is not on C0 it emits nothing.
C24_CloseIdleFill ==
  [][/\ (ctlOp # "close" /\ ctlOp' = "close") => ~mActiveEnc'
     /\ (CloseStep /\ onC0) =>
          /\ txLast' = mNextWriteTime
          /\ mPrevWriteTime' = mNextWriteTime
          /\ ctlOp' = "none" <=> ctlI' = numFrames(encKind)
     /\ (CloseStep /\ ~onC0) => UNCHANGED <<txSeen, txPrev, txLast>>]_vars

\* The part that holds, on C0 and off it alike: close() clears the flag and
\* hands the radio numFrames bursts, each stamped with the scheduled time.
C24_CloseFillsAnyCarrier ==
  [][/\ (ctlOp # "close" /\ ctlOp' = "close") => ~mActiveEnc'
     /\ CloseStep =>
          /\ txLast' = mNextWriteTime
          /\ mPrevWriteTime' = mNextWriteTime
          /\ ctlOp' = "none" <=> ctlI' = numFrames(encKind)]_vars
----------------------------------------------------------------------------
(* The decoder's life cycle with wall time running on: open, frames,       *)
(* close, and the release timer.                                           *)

NextDecLife ==
  \/ DecOpen
  \/ DecClose
  \/ DecGoodFrame
  \/ DecBadFrame
  \/ DecTimePasses

\* The system clock advances whatever the decoder does.
SpecDecLife == InitDec /\ [][NextDecLife]_vars /\ WF_vars(DecTimePasses)

\* The decoder was closed and not opened again.
DecClosed == ~mActiveDec /\ decOps > 0

\* C23: open() leaves FER = 0, T3109 and T3111 stopped, T3101 running and the
\* decoder open; close() leaves T3101 and T3109 stopped, T3111 running and the
\* decoder not open; a closed decoder is never active(), and unless it is
\* opened again it becomes recyclable, at the moment T3111 expires.
C23_OpenCloseLifeCycle ==
  /\ [][/\ (~mActiveDec /\ mActiveDec') =>
            /\ mFER' = FERZero
            /\ ~mT3109'.active /\ ~mT3111'.active
            /\ mT3101'.active /\ mT3101'.left = T3101Limit
        /\ (mActiveDec /\ ~mActiveDec') =>
            /\ ~mT3101'.active /\ ~mT3109'.active
            /\ mT3111'.active /\ mT3111'.left = T3111Limit
        /\ (DecClosed /\ ~mActiveDec') =>
            /\ ~activeDec'
            /\ ~mT3101'.active /\ ~mT3109'.active /\ mT3111'.active
            /\ recyclable' <=> TimerExpired(mT3111')]_vars
  /\ (DecClosed ~> (mActiveDec \/ recyclable))

\* A decoder that was opened, took a frame, was closed and has been released.
C23_Witness == DecClosed /\ recyclable /\ mFER # FERZero /\ ~activeDec
====
